---- MODULE Spec2Model ----
(***************************************************************************)
(* Mailbox synchronisation engine of gmail_integration: the contact        *)
(* resolver, the message upsert, attachment ingestion and the chunked      *)
(* batch fetch of utils/gmail_api.py over the tables of models.py.         *)
(*                                                                         *)
(* Tables are sequences of rows; a row's primary key is its index.  The    *)
(* uniqueness constraints of models.py are enforced where rows are         *)
(* inserted, not by the shape of the tables.                               *)
(*                                                                         *)
(*   SpecSeq   one caller, every call of save_email_to_db or               *)
(*             get_or_create_contact runs to completion before the next    *)
(*   Spec      two sync passes; every database statement and every         *)
(*             provider call of save_email_to_db is one step               *)
(*   SpecFetch one fetch_emails call over a listing cut into chunks        *)
(*   SpecCred  the credential store of utils/gmail_auth.py                 *)
(*   SpecSync  the sync runs of tasks.py over the connected accounts       *)
(*   SpecThreads  the thread queries of services.py over a stored mailbox  *)
(*   SpecParse the parsing functions of utils/gmail_api.py, one call each  *)
(*                                                                         *)
(* The wall clock moves in SpecSeq only (Tick); during the passes of Spec  *)
(* and the call of SpecFetch it stands still.                              *)
(***************************************************************************)
EXTENDS Integers, Sequences, FiniteSets, TLC

(* ------------------------------ bounds -------------------------------- *)
\* operations of one sequential run
MaxOps == 2
\* ticks of the wall clock
MaxClock == 1
\* messages one concurrent pass ingests
MaxIngest == 2

(* --------------------------- value domains ---------------------------- *)
NoPk == 0
BadDate == -1
Addrs == {"a@x", "b@x"}
\* a spelling of a@x that differs from it in letter case only
AddrSpellings == {"A@x"}
Names == {"", "Jane", "Bob"}
MsgIds == {1, 2}
\* what the provider answers to an attachment request
ProviderResponses == {"data", "empty", "error"}

SeqToSet(s) == {s[i] : i \in 1..Len(s)}
Perms(S) == {f \in [1..Cardinality(S) -> S] : \A i, j \in 1..Cardinality(S) : f[i] = f[j] => i = j}

\* From header values: a missing header, or 'name <addr>'
FromHeaders ==
    { [addr |-> "", name |-> ""],
      [addr |-> "a@x", name |-> "Jane"],
      [addr |-> "a@x", name |-> "Bob"] }
\* To / Cc header values, already split at the commas
RecipientHeaders ==
    { [to |-> << >>, cc |-> << >>],
      [to |-> <<"a@x">>, cc |-> << >>],
      [to |-> <<"b@x", "">>, cc |-> <<"b@x">>] }
AttachmentParts == { << >>, <<"x1", "x2">> }
DateHeaders == {10, BadDate}

\* messages that vary in their correspondents
HeaderMessages ==
    { [id |-> i, thread |-> i, from |-> f, to |-> r.to, cc |-> r.cc, bcc |-> << >>,
       date |-> 10, html |-> << >>, atts |-> << >>] :
        i \in MsgIds, f \in FromHeaders, r \in RecipientHeaders }
\* messages that vary in their Date header and their attachment parts
AttachmentMessages ==
    { [id |-> i, thread |-> i, from |-> [addr |-> "", name |-> ""], to |-> << >>,
       cc |-> << >>, bcc |-> << >>, date |-> d, html |-> << >>, atts |-> a] :
        i \in MsgIds, d \in DateHeaders, a \in AttachmentParts }
RawMessages == HeaderMessages \cup AttachmentMessages

(* ------------------------- message normalizer ------------------------- *)
\* the list comprehension  [e.strip() for e in x.split(',') if e.strip()]
RECURSIVE NonEmpty(_)
NonEmpty(s) ==
    IF s = << >> THEN << >>
    ELSE IF Head(s) = "" THEN NonEmpty(Tail(s))
    ELSE <<Head(s)>> \o NonEmpty(Tail(s))

\* An HTML body is a sequence of tokens: <<"tag", name>> for an opening or
\* closing tag, <<"text", t>> for character data.
allowed_tags ==
    { "a", "abbr", "acronym", "b", "blockquote", "br", "code", "div", "em",
      "h1", "h2", "h3", "h4", "h5", "h6", "hr", "i", "img", "li", "ol", "p",
      "pre", "span", "strong", "table", "tbody", "td", "th", "thead", "tr",
      "ul", "u" }

\* bleach.clean(body_html, tags=tags, strip=True): a tag outside `tags` is
\* removed, what it encloses is kept
RECURSIVE bleach_clean(_, _)
bleach_clean(body_html, tags) ==
    IF body_html = << >> THEN << >>
    ELSE LET t == Head(body_html) IN
         IF t[1] = "tag" /\ t[2] \notin tags
           THEN bleach_clean(Tail(body_html), tags)
         ELSE <<t>> \o bleach_clean(Tail(body_html), tags)

\* what the two bleach calls do on one body: both work, the allow-list call
\* raises, or every call raises
BleachOutcomes == {"ok", "clean_raises", "raises"}

\* the except clause of the sanitizer: every tag is stripped
SanitizeFallback_raw(body_html) == body_html
SanitizeFallback(body_html) == bleach_clean(body_html, {})

\* the block  `if body_html:`  of parse_email_message; an exception of the
\* fallback leaves parse_email_message
Sanitize(body_html, bleach) ==
    IF body_html = << >> THEN [body_html |-> << >>, raised |-> FALSE]
    ELSE IF bleach = "ok"
      THEN [body_html |-> bleach_clean(body_html, allowed_tags), raised |-> FALSE]
    ELSE IF bleach = "clean_raises"
      THEN [body_html |-> SanitizeFallback(body_html), raised |-> FALSE]
    ELSE [body_html |-> << >>, raised |-> TRUE]

\* parse_email_message: the date falls back to the wall clock when the
\* Date header does not parse; raised tells that the sanitizer's exception
\* left the function
parse_email_message(raw, clock, bleach) ==
    [ gmail_id |-> raw.id,
      thread_id |-> raw.thread,
      body_html |-> Sanitize(raw.html, bleach).body_html,
      raised |-> Sanitize(raw.html, bleach).raised,
      sender_email |-> raw.from.addr,
      sender_name |-> raw.from.name,
      recipient_list |-> NonEmpty(raw.to),
      cc_list |-> NonEmpty(raw.cc),
      bcc_list |-> NonEmpty(raw.bcc),
      date |-> IF raw.date = BadDate THEN clock ELSE raw.date,
      attachments_metadata |-> raw.atts ]

\* batch_callback's  email_data = parse_email_message(response)  and
\* email_data['account_email'] = account_email
email_data(raw, clock, bleach, account_email) ==
    parse_email_message(raw, clock, bleach) @@ [account_email |-> account_email]

(* ------------------------------ tables -------------------------------- *)
ContactPks(cs, addr) == {i \in 1..Len(cs) : cs[i].email = addr}
EmailPks(es, gid) == {i \in 1..Len(es) : es[i].gmail_id = gid}
AttachmentPks(as, epk, aid) ==
    {i \in 1..Len(as) : as[i].email = epk /\ as[i].gmail_attachment_id = aid}

\* Contact.email is unique=True: an INSERT of a present address is refused
ContactUniqueViolated_off(cs, addr) == FALSE
ContactUniqueViolated(cs, addr) == ContactPks(cs, addr) # {}

\* Email.gmail_id is unique=True
EmailUniqueViolated_off(es, gid) == FALSE
EmailUniqueViolated(es, gid) == EmailPks(es, gid) # {}

\* Attachment declares indexes only: no INSERT of an Attachment is refused
AttachmentUniqueViolated(as, epk, aid) == FALSE

(* -------------------------- contact resolver -------------------------- *)
\* Contact.objects.get_or_create(email=addr, defaults={'name': name}) run to
\* completion: SELECT, and INSERT when no row matched.  get() raises
\* MultipleObjectsReturned on more than one match.
objects_get_or_create(cs, addr, name) ==
    LET pks == ContactPks(cs, addr) IN
    IF Cardinality(pks) > 1
      THEN [contacts |-> cs, contact |-> NoPk, created |-> FALSE, raised |-> TRUE]
    ELSE IF pks # {}
      THEN [contacts |-> cs, contact |-> CHOOSE i \in pks : TRUE,
            created |-> FALSE, raised |-> FALSE]
    ELSE [contacts |-> Append(cs, [email |-> addr, name |-> name]),
          contact |-> Len(cs) + 1, created |-> TRUE, raised |-> FALSE]

\* the guard of the name backfill:  not created and name and not contact.name
BackfillName_always(created, name, stored) == ~created /\ name # ""
BackfillName(created, name, stored) == ~created /\ name # "" /\ stored = ""

\* get_or_create_contact run to completion
get_or_create_contact(cs, addr, name) ==
    IF addr = ""
      THEN [contacts |-> cs, contact |-> NoPk, created |-> FALSE, raised |-> FALSE]
    ELSE LET r == objects_get_or_create(cs, addr, name) IN
         IF r.raised THEN r
         ELSE IF BackfillName(r.created, name, r.contacts[r.contact].name)
           THEN [r EXCEPT !.contacts[r.contact].name = name]
         ELSE r

(* ------------------------ persistence / upsert ------------------------ *)
\* download_attachment: the decoded bytes, b'' for empty data, None when the
\* request raised
download_attachment(response) ==
    IF response = "error" THEN "None"
    ELSE IF response = "empty" THEN ""
    ELSE "bytes"

\* the test  `if file_data:`  that guards the creation of the row
Truthy_any(file_data) == TRUE
Truthy(file_data) == file_data # "None" /\ file_data # ""

\* the test  `if not existing:`  on the row filtered by (email, attachment id)
AttachmentExists_never(as, epk, aid) == FALSE
AttachmentExists(as, epk, aid) == AttachmentPks(as, epk, aid) # {}

\* the test  `if all_recipients:`  that guards recipients.set
ReplaceRecipients(all_recipients) == all_recipients # << >>

\* Email.objects.update_or_create(gmail_id=..., defaults=...) run to completion
update_or_create(es, data, sender_contact) ==
    LET pks == EmailPks(es, data.gmail_id)
        row == [gmail_id |-> data.gmail_id, thread_id |-> data.thread_id,
                account_email |-> data.account_email, date |-> data.date,
                body_html |-> data.body_html, sender_contact |-> sender_contact] IN
    IF Cardinality(pks) > 1
      THEN [emails |-> es, email_obj |-> NoPk, created |-> FALSE, raised |-> TRUE]
    ELSE IF pks # {}
      THEN LET pk == CHOOSE i \in pks : TRUE IN
           [emails |-> [es EXCEPT ![pk] = row], email_obj |-> pk,
            created |-> FALSE, raised |-> FALSE]
    ELSE [emails |-> Append(es, row), email_obj |-> Len(es) + 1,
          created |-> TRUE, raised |-> FALSE]

\* the loop  `for email_addr in set(all_recipients)`, in iteration order `order`
RECURSIVE ResolveRecipients(_, _)
ResolveRecipients(cs, order) ==
    IF order = << >> THEN [contacts |-> cs, contact_objs |-> {}, raised |-> FALSE]
    ELSE LET r == get_or_create_contact(cs, Head(order), "") IN
         IF r.raised THEN [contacts |-> r.contacts, contact_objs |-> {}, raised |-> TRUE]
         ELSE LET rest == ResolveRecipients(r.contacts, Tail(order)) IN
              [rest EXCEPT !.contact_objs =
                  @ \cup (IF r.contact # NoPk THEN {r.contact} ELSE {})]

\* email_obj.recipients.set(contact_objs)
recipients_set_every_message(ls, epk, contact_objs) == {<<epk, c>> : c \in contact_objs}
recipients_set(ls, epk, contact_objs) ==
    {l \in ls : l[1] # epk} \cup {<<epk, c>> : c \in contact_objs}

\* the loop over attachments_metadata from entry i on; dl[i] is the provider's
\* answer to the download of entry i, n counts the download calls issued
RECURSIVE IngestAttachments(_, _, _, _, _, _)
IngestAttachments(as, n, epk, meta, dl, i) ==
    IF i > Len(meta) THEN [attachments |-> as, downloads |-> n]
    ELSE IF AttachmentExists(as, epk, meta[i])
      THEN IngestAttachments(as, n, epk, meta, dl, i + 1)
    ELSE LET file_data == download_attachment(dl[i]) IN
         IF Truthy(file_data)
           THEN IngestAttachments(
                  Append(as, [email |-> epk, gmail_attachment_id |-> meta[i],
                              file |-> file_data]),
                  n + 1, epk, meta, dl, i + 1)
         ELSE IngestAttachments(as, n + 1, epk, meta, dl, i + 1)

\* save_email_to_db run to completion on the store st; an exception leaves
\* what was written before it (no enclosing transaction)
save_email_to_db(st, data, service, order, dl) ==
    LET s1 == get_or_create_contact(st.contacts, data.sender_email, data.sender_name)
        all_recipients == data.recipient_list \o data.cc_list \o data.bcc_list
    IN
    IF s1.raised THEN [st EXCEPT !.contacts = s1.contacts, !.raised = TRUE] @@ [email_obj |-> NoPk]
    ELSE
    LET s3 == update_or_create(st.emails, data, s1.contact) IN
    IF s3.raised THEN [st EXCEPT !.contacts = s1.contacts, !.raised = TRUE] @@ [email_obj |-> NoPk]
    ELSE
    LET s4 == IF ReplaceRecipients(all_recipients)
                THEN ResolveRecipients(s1.contacts, order)
                ELSE [contacts |-> s1.contacts, contact_objs |-> {}, raised |-> FALSE]
    IN
    IF s4.raised
      THEN [st EXCEPT !.contacts = s4.contacts, !.emails = s3.emails, !.raised = TRUE] @@ [email_obj |-> s3.email_obj]
    ELSE
    LET ls == IF ReplaceRecipients(all_recipients)
                THEN recipients_set(st.links, s3.email_obj, s4.contact_objs)
                ELSE st.links
        s5 == IF data.attachments_metadata # << >> /\ service
                THEN IngestAttachments(st.attachments, st.downloads, s3.email_obj,
                                       data.attachments_metadata, dl, 1)
                ELSE [attachments |-> st.attachments, downloads |-> st.downloads]
    IN
    [contacts |-> s4.contacts, emails |-> s3.emails, links |-> ls,
     attachments |-> s5.attachments, downloads |-> s5.downloads,
     email_obj |-> s3.email_obj, raised |-> FALSE]

(* ------------------------------- state -------------------------------- *)
VARIABLES
    contacts,     \* Contact rows  [email, name]
    emails,       \* Email rows  [gmail_id, thread_id, account_email, date, body_html, sender_contact]
    links,        \* Email.recipients through table: <<email pk, contact pk>>
    attachments,  \* Attachment rows  [email, gmail_attachment_id, file]
    downloads,    \* attachment download calls issued to the provider so far
    now,          \* the wall clock read by timezone.now()
    nops,         \* calls completed by the sequential caller
    last,         \* the last completed call: its arguments, its result, the call before it
    pass,         \* per concurrent sync pass: its position in save_email_to_db and its locals
    fetch,        \* the fetch_emails call: its position, its locals, which requests failed
    tokens,       \* GmailToken rows  [user, email_account, token_data, encrypted_token_data, is_active]
    syncs,        \* SyncStatus rows  [account_email, status, emails_synced, error_message]
    key,          \* settings.ENCRYPTION_KEY, the key of the process-wide cipher
    cred,         \* the credential call last completed, or the one in flight
    sync,         \* the sync_all_emails call: its position and its locals
    threads,      \* the get_threads_for_user call last completed
    parse         \* the call of a parsing function last completed

store_vars == <<contacts, emails, links, attachments, downloads>>
aux_vars == <<tokens, syncs, key, cred, sync, threads, parse>>
vars ==
    <<contacts, emails, links, attachments, downloads, now, nops, last, pass, fetch,
      tokens, syncs, key, cred, sync, threads, parse>>

Store ==
    [contacts |-> contacts, emails |-> emails, links |-> links,
     attachments |-> attachments, downloads |-> downloads]

NoArg == [none |-> TRUE]
NoCall ==
    [op |-> "none", arg |-> NoArg, ret |-> NoPk, raised |-> FALSE, calls |-> 0,
     before |-> [op |-> "none", arg |-> NoArg]]
CallOf(l) == [op |-> l.op, arg |-> l.arg]

NoFetch == [pc |-> "none"]
NoCred == [op |-> "none"]
NoSync == [pc |-> "none"]
NoThreads == [op |-> "none"]
NoParse == [op |-> "none"]

InitStore ==
    /\ contacts = << >>
    /\ emails = << >>
    /\ links = {}
    /\ attachments = << >>
    /\ downloads = 0

\* no credential is connected, no sync pass, no query and no parser is running
InitAux ==
    /\ tokens = << >>
    /\ syncs = << >>
    /\ key = "k1"
    /\ cred = NoCred
    /\ sync = NoSync
    /\ threads = NoThreads
    /\ parse = NoParse

(* --------------------- sequential caller (SpecSeq) -------------------- *)
InitSeq ==
    /\ InitStore
    /\ now = 0
    /\ nops = 0
    /\ last = NoCall
    /\ pass = << >>
    /\ fetch = NoFetch
    /\ InitAux

\* time passes between calls
Tick ==
    /\ now < MaxClock
    /\ now' = now + 1
    /\ UNCHANGED <<store_vars, nops, last, pass, fetch, aux_vars>>

\* batch_callback's body for one response: parse_email_message, then
\* save_email_to_db with the pass's service
Ingest ==
    /\ nops < MaxOps
    /\ \E raw \in RawMessages :
       LET data == email_data(raw, now, "ok", "a@x")
           all_recipients == data.recipient_list \o data.cc_list \o data.bcc_list IN
       \E order \in Perms(SeqToSet(all_recipients)),
          dl \in [1..Len(data.attachments_metadata) -> ProviderResponses] :
       \E st \in {save_email_to_db(Store @@ [raised |-> FALSE], data, TRUE, order, dl)} :
         /\ contacts' = st.contacts
         /\ emails' = st.emails
         /\ links' = st.links
         /\ attachments' = st.attachments
         /\ downloads' = st.downloads
         /\ last' = [op |-> "ingest", arg |-> raw, ret |-> st.email_obj,
                     raised |-> st.raised, calls |-> st.downloads - downloads,
                     before |-> CallOf(last)]
    /\ nops' = nops + 1
    /\ UNCHANGED <<now, pass, fetch, aux_vars>>

\* a direct call of get_or_create_contact
Resolve ==
    /\ nops < MaxOps
    /\ \E addr \in Addrs \cup AddrSpellings \cup {""}, name \in Names :
       \E r \in {get_or_create_contact(contacts, addr, name)} :
       /\ contacts' = r.contacts
       /\ last' = [op |-> "resolve", arg |-> [addr |-> addr, name |-> name],
                   ret |-> r.contact, raised |-> r.raised, calls |-> 0,
                   before |-> CallOf(last)]
    /\ nops' = nops + 1
    /\ UNCHANGED <<emails, links, attachments, downloads, now, pass, fetch, aux_vars>>

NextSeq == Tick \/ Ingest \/ Resolve

SpecSeq == InitSeq /\ [][NextSeq]_vars

(* ------------------- two concurrent sync passes (Spec) ---------------- *)
Passes == {1, 2}

\* the messages of the account both passes run over
Mailbox ==
    { [id |-> 1, thread |-> 1, from |-> [addr |-> "a@x", name |-> "Jane"],
       to |-> <<"b@x", "">>, cc |-> <<"b@x">>, bcc |-> << >>, date |-> 10,
       html |-> << >>, atts |-> <<"x1">>],
      [id |-> 2, thread |-> 1, from |-> [addr |-> "a@x", name |-> "Bob"],
       to |-> <<"a@x">>, cc |-> << >>, bcc |-> << >>, date |-> BadDate,
       html |-> << >>, atts |-> << >>],
      [id |-> 3, thread |-> 3, from |-> [addr |-> "", name |-> ""], to |-> <<"a@x">>,
       cc |-> << >>, bcc |-> << >>, date |-> 10, html |-> << >>, atts |-> << >>] }

IdlePass ==
    [pc |-> "idle", n |-> 0, data |-> NoArg, ctx |-> "none", contact |-> NoPk,
     sender_contact |-> NoPk, email_obj |-> NoPk, todo |-> << >>, contact_objs |-> {},
     old_ids |-> {}, i |-> 0, file_data |-> "None", refetched |-> {}, raised |-> FALSE]

Init ==
    /\ InitStore
    /\ now = 0
    /\ nops = 0
    /\ last = NoCall
    /\ pass = [p \in Passes |-> IdlePass]
    /\ fetch = NoFetch
    /\ InitAux

AllRecipients(data) == data.recipient_list \o data.cc_list \o data.bcc_list

\* the arguments of the get_or_create_contact call a pass is inside
ResolveAddr(s) == IF s.ctx = "sender" THEN s.data.sender_email ELSE Head(s.todo)
ResolveName(s) == IF s.ctx = "sender" THEN s.data.sender_name ELSE ""

\* save_email_to_db returns, or raises into batch_callback's except clause;
\* refetched records which INSERTs of this call were refused as duplicates
Finish(s) == [s EXCEPT !.pc = "idle", !.n = @ + 1]
Raise(s) == [s EXCEPT !.pc = "idle", !.n = @ + 1, !.raised = TRUE]

\* the attachment loop moves to its next entry
NextAttachment(s) ==
    IF s.i + 1 > Len(s.data.attachments_metadata) THEN Finish(s)
    ELSE [s EXCEPT !.i = @ + 1, !.pc = "att_check"]

\* step 5 is entered:  if attachments_metadata and service
AfterRecipients(s) ==
    IF s.data.attachments_metadata # << >>
      THEN [s EXCEPT !.i = 1, !.pc = "att_check"]
    ELSE Finish(s)

\* get_or_create_contact returned pk to the recipient loop
AfterRecipient(s, pk) ==
    LET rest == Tail(s.todo) IN
    [s EXCEPT !.contact_objs = @ \cup {pk}, !.todo = rest,
              !.pc = IF rest = << >> THEN "rcpt_read" ELSE "goc_get"]

\* update_or_create returned the row pk; step 4 starts
AfterEmail(s, pk, order) ==
    IF ReplaceRecipients(AllRecipients(s.data))
      THEN [s EXCEPT !.email_obj = pk, !.ctx = "rcpt", !.todo = order,
                     !.contact_objs = {}, !.pc = "goc_get"]
    ELSE AfterRecipients([s EXCEPT !.email_obj = pk])

\* get_or_create_contact returned pk: to the sender step it returns before
\* update_or_create, to the recipient loop after it
AfterResolve_recipients_first(s, pk) ==
    IF s.ctx = "sender"
      THEN AfterEmail([s EXCEPT !.sender_contact = pk], NoPk,
                      CHOOSE o \in Perms(SeqToSet(AllRecipients(s.data))) : TRUE)
    ELSE AfterRecipient(s, pk)
AfterResolve(s, pk) ==
    IF s.ctx = "sender"
      THEN [s EXCEPT !.sender_contact = pk, !.pc = "email_get"]
    ELSE AfterRecipient(s, pk)

\* the contact fetched or created is in memory: save it when the name is
\* backfilled, return it otherwise
AfterFetch(s, pk, created, stored) ==
    IF BackfillName(created, ResolveName(s), stored)
      THEN [s EXCEPT !.contact = pk, !.pc = "goc_save"]
    ELSE AfterResolve(s, pk)

\* the row update_or_create writes
EmailRow(s) ==
    [gmail_id |-> s.data.gmail_id, thread_id |-> s.data.thread_id,
     account_email |-> s.data.account_email, date |-> s.data.date,
     body_html |-> s.data.body_html, sender_contact |-> s.sender_contact]

\* batch_callback receives a response: parse_email_message, then step 1 of
\* save_email_to_db up to its first database statement
Start(p) ==
    /\ pass[p].pc = "idle"
    /\ pass[p].n < MaxIngest
    /\ \E raw \in Mailbox :
       LET data == email_data(raw, now, "ok", "a@x")
           s == [IdlePass EXCEPT !.n = pass[p].n, !.raised = pass[p].raised,
                                 !.data = data, !.ctx = "sender"] IN
       pass' = [pass EXCEPT ![p] =
                  IF data.sender_email = "" THEN [s EXCEPT !.pc = "email_get"]
                  ELSE [s EXCEPT !.pc = "goc_get"]]
    /\ UNCHANGED <<store_vars, now, nops, last, fetch, aux_vars>>

\* get_or_create: the SELECT of get()
ContactGet(p) ==
    LET s == pass[p]
        pks == ContactPks(contacts, ResolveAddr(s)) IN
    /\ s.pc = "goc_get"
    /\ pass' = [pass EXCEPT ![p] =
         IF Cardinality(pks) > 1 THEN Raise(s)
         ELSE IF pks = {} THEN [s EXCEPT !.pc = "goc_insert"]
         ELSE LET pk == CHOOSE i \in pks : TRUE IN
              AfterFetch(s, pk, FALSE, contacts[pk].name)]
    /\ UNCHANGED <<store_vars, now, nops, last, fetch, aux_vars>>

\* get_or_create: the INSERT of create(); on IntegrityError the row is
\* fetched again
ContactInsert(p) ==
    LET s == pass[p]
        addr == ResolveAddr(s)
        pks == ContactPks(contacts, addr) IN
    /\ s.pc = "goc_insert"
    /\ IF ContactUniqueViolated(contacts, addr)
         THEN /\ pass' = [pass EXCEPT ![p] =
                   IF Cardinality(pks) # 1 THEN Raise(s)
                   ELSE LET pk == CHOOSE i \in pks : TRUE IN
                        AfterFetch([s EXCEPT !.refetched = @ \cup {"contact"}],
                                   pk, FALSE, contacts[pk].name)]
              /\ contacts' = contacts
         ELSE /\ contacts' = Append(contacts, [email |-> addr, name |-> ResolveName(s)])
              /\ pass' = [pass EXCEPT ![p] =
                   AfterFetch(s, Len(contacts) + 1, TRUE, ResolveName(s))]
    /\ UNCHANGED <<emails, links, attachments, downloads, now, nops, last, fetch, aux_vars>>

\* contact.name = name; contact.save()
ContactSave(p) ==
    LET s == pass[p] IN
    /\ s.pc = "goc_save"
    /\ contacts' = [contacts EXCEPT ![s.contact].name = ResolveName(s)]
    /\ pass' = [pass EXCEPT ![p] = AfterResolve(s, s.contact)]
    /\ UNCHANGED <<emails, links, attachments, downloads, now, nops, last, fetch, aux_vars>>

\* update_or_create: the SELECT of get()
EmailGet(p) ==
    LET s == pass[p]
        pks == EmailPks(emails, s.data.gmail_id) IN
    /\ s.pc = "email_get"
    /\ pass' = [pass EXCEPT ![p] =
         IF Cardinality(pks) > 1 THEN Raise(s)
         ELSE IF pks = {} THEN [s EXCEPT !.pc = "email_insert"]
         ELSE [s EXCEPT !.email_obj = CHOOSE i \in pks : TRUE, !.pc = "email_update"]]
    /\ UNCHANGED <<store_vars, now, nops, last, fetch, aux_vars>>

\* update_or_create: the INSERT of create(); on IntegrityError the row is
\* fetched again and then updated
EmailInsert(p) ==
    LET s == pass[p]
        pks == EmailPks(emails, s.data.gmail_id) IN
    /\ s.pc = "email_insert"
    /\ IF EmailUniqueViolated(emails, s.data.gmail_id)
         THEN /\ pass' = [pass EXCEPT ![p] =
                   IF Cardinality(pks) # 1 THEN Raise(s)
                   ELSE [s EXCEPT !.email_obj = CHOOSE i \in pks : TRUE,
                                  !.refetched = @ \cup {"email"},
                                  !.pc = "email_update"]]
              /\ emails' = emails
         ELSE /\ emails' = Append(emails, EmailRow(s))
              /\ \E order \in Perms(SeqToSet(AllRecipients(s.data))) :
                   pass' = [pass EXCEPT ![p] = AfterEmail(s, Len(emails) + 1, order)]
    /\ UNCHANGED <<contacts, links, attachments, downloads, now, nops, last, fetch, aux_vars>>

\* update_or_create: the defaults are set on the fetched row and saved
EmailUpdate(p) ==
    LET s == pass[p] IN
    /\ s.pc = "email_update"
    /\ emails' = [emails EXCEPT ![s.email_obj] = EmailRow(s)]
    /\ \E order \in Perms(SeqToSet(AllRecipients(s.data))) :
         pass' = [pass EXCEPT ![p] = AfterEmail(s, s.email_obj, order)]
    /\ UNCHANGED <<contacts, links, attachments, downloads, now, nops, last, fetch, aux_vars>>

\* recipients.set: the SELECT of the ids linked now
RecipientsRead(p) ==
    LET s == pass[p] IN
    /\ s.pc = "rcpt_read"
    /\ pass' = [pass EXCEPT ![p] =
         [s EXCEPT !.old_ids = {l[2] : l \in {m \in links : m[1] = s.email_obj}},
                   !.pc = "rcpt_write"]]
    /\ UNCHANGED <<store_vars, now, nops, last, fetch, aux_vars>>

\* recipients.set: remove the ids read that are not wanted, add the wanted
\* ones that were not read
RecipientsWrite(p) ==
    LET s == pass[p]
        gone == s.old_ids \ s.contact_objs
        new == s.contact_objs \ s.old_ids IN
    /\ s.pc = "rcpt_write"
    /\ links' = (links \ {<<s.email_obj, c>> : c \in gone})
                    \cup {<<s.email_obj, c>> : c \in new}
    /\ pass' = [pass EXCEPT ![p] = AfterRecipients(s)]
    /\ UNCHANGED <<contacts, emails, attachments, downloads, now, nops, last, fetch, aux_vars>>

\* Attachment.objects.filter(email, gmail_attachment_id).first()
AttachmentCheck(p) ==
    LET s == pass[p] IN
    /\ s.pc = "att_check"
    /\ pass' = [pass EXCEPT ![p] =
         IF AttachmentExists(attachments, s.email_obj, s.data.attachments_metadata[s.i])
           THEN NextAttachment(s)
         ELSE [s EXCEPT !.pc = "att_download"]]
    /\ UNCHANGED <<store_vars, now, nops, last, fetch, aux_vars>>

\* download_attachment, and the test of what it returned
AttachmentDownload(p) ==
    LET s == pass[p] IN
    /\ s.pc = "att_download"
    /\ downloads' = downloads + 1
    /\ \E response \in ProviderResponses :
         LET file_data == download_attachment(response) IN
         pass' = [pass EXCEPT ![p] =
            IF Truthy(file_data)
              THEN [s EXCEPT !.file_data = file_data, !.pc = "att_create"]
            ELSE NextAttachment(s)]
    /\ UNCHANGED <<contacts, emails, links, attachments, now, nops, last, fetch, aux_vars>>

\* attachment.file.save(..., save=True): the file is stored and the row inserted
AttachmentCreate(p) ==
    LET s == pass[p]
        aid == s.data.attachments_metadata[s.i] IN
    /\ s.pc = "att_create"
    /\ IF AttachmentUniqueViolated(attachments, s.email_obj, aid)
         THEN /\ attachments' = attachments
              /\ pass' = [pass EXCEPT ![p] = Raise(s)]
         ELSE /\ attachments' = Append(attachments,
                     [email |-> s.email_obj, gmail_attachment_id |-> aid,
                      file |-> s.file_data])
              /\ pass' = [pass EXCEPT ![p] = NextAttachment([s EXCEPT !.file_data = "None"])]
    /\ UNCHANGED <<contacts, emails, links, downloads, now, nops, last, fetch, aux_vars>>

Next ==
    \E p \in Passes :
        \/ Start(p)
        \/ ContactGet(p)
        \/ ContactInsert(p)
        \/ ContactSave(p)
        \/ EmailGet(p)
        \/ EmailInsert(p)
        \/ EmailUpdate(p)
        \/ RecipientsRead(p)
        \/ RecipientsWrite(p)
        \/ AttachmentCheck(p)
        \/ AttachmentDownload(p)
        \/ AttachmentCreate(p)

Spec == Init /\ [][Next]_vars

(* ---------------------- fetch_emails (SpecFetch) ---------------------- *)
chunk_size == 20
\* ids the listing returns at most (max_results)
MaxListed == 41

\* the text/html part every message of the listing carries:
\* <script>alert(1)</script><b>hi</b>
ScriptBody ==
    << <<"tag", "script">>, <<"text", "alert(1)">>, <<"tag", "script">>,
       <<"tag", "b">>, <<"text", "hi">>, <<"tag", "b">> >>

\* the message the provider holds under id
FetchMessage(id) ==
    [id |-> id, thread |-> id, from |-> [addr |-> "a@x", name |-> "Jane"],
     to |-> <<"b@x">>, cc |-> << >>, bcc |-> << >>, date |-> 10,
     html |-> ScriptBody, atts |-> << >>]

\* what can go wrong with one listed message: its request fails, its response
\* lacks a key parse_email_message reads, the allow-list sanitizer raises on
\* its body, every sanitizer call raises on its body, the database refuses
\* its Email row
ItemFaults == {"http_error", "malformed", "unclean", "unsanitizable", "unstorable"}

\* what bleach does on the body of the message at position k
BleachOn(f, k) ==
    IF f.bad = k /\ f.kind = "unclean" THEN "clean_raises"
    ELSE IF f.bad = k /\ f.kind = "unsanitizable" THEN "raises"
    ELSE "ok"

\* current_chunk of the listed message at position k (1-based)
ChunkOf(k) == ((k - 1) \div chunk_size) + 1
\* total_chunks
TotalChunks(n) == (n + chunk_size - 1) \div chunk_size

InitFetch ==
    /\ InitStore
    /\ now = 0
    /\ nops = 0
    /\ last = NoCall
    /\ pass = << >>
    /\ fetch = [pc |-> "start", n |-> 0, bad |-> 0, kind |-> "none", i |-> 0, k |-> 0,
                emails_saved |-> 0, failed_chunks |-> {}, failed_items |-> {},
                result |-> 0]
    /\ InitAux

\* fetch_emails returns
Return(f, count) == [f EXCEPT !.pc = "returned", !.result = count]

\* what the loop does when execute() of a chunk raised
AfterChunkFailure_abort(f) == Return(f, 0)
AfterChunkFailure(f) ==
    IF f.i + chunk_size >= f.n THEN Return(f, f.emails_saved)
    ELSE [f EXCEPT !.i = @ + chunk_size, !.pc = "chunk"]

\* the for loop moves to the next chunk, or the function returns emails_saved
NextChunk(f) ==
    IF f.i + chunk_size >= f.n THEN Return(f, f.emails_saved)
    ELSE [f EXCEPT !.i = @ + chunk_size, !.pc = "chunk"]

\* the guard on service, the messages().list() call and the empty-listing
\* return; at most one listed message (bad) has a fault (kind)
FetchList ==
    /\ fetch.pc = "start"
    /\ \E service \in BOOLEAN, listed \in {"ok", "error"}, n \in 0..MaxListed :
       \E bad \in 0..n, kind \in ItemFaults :
         fetch' = IF ~service \/ listed = "error" \/ n = 0
                    THEN Return(fetch, 0)
                  ELSE [fetch EXCEPT !.n = n, !.bad = bad, !.kind = kind,
                                     !.i = 0, !.pc = "chunk"]
    /\ UNCHANGED <<store_vars, now, nops, last, pass, aux_vars>>

\* batch.execute() of the chunk starting at position i: it raises before
\* any callback runs, or the callbacks of the chunk run in order
ExecuteChunk ==
    /\ fetch.pc = "chunk"
    /\ \E executed \in BOOLEAN :
         fetch' = IF executed
                    THEN [fetch EXCEPT !.k = fetch.i + 1, !.pc = "callback"]
                  ELSE AfterChunkFailure(
                         [fetch EXCEPT !.failed_chunks = @ \cup {ChunkOf(fetch.i + 1)}])
    /\ UNCHANGED <<store_vars, now, nops, last, pass, aux_vars>>

\* batch_callback returns: the batch runs the callback of the next response
\* of the chunk, or the chunk is done
AfterCallback(f) ==
    IF f.k + 1 > f.n \/ f.k + 1 > f.i + chunk_size THEN NextChunk(f)
    ELSE [f EXCEPT !.k = @ + 1]

\* the except clause of batch_callback: the exception is logged and the
\* callback returns
ExceptClause_reraise(f) == AfterChunkFailure(f)
ExceptClause(f) == AfterCallback(f)

\* save_email_to_db when the database refuses the Email row: update_or_create
\* raises, what step 1 wrote stays
RefusedUpsert(st, data) ==
    LET s1 == get_or_create_contact(st.contacts, data.sender_email, data.sender_name) IN
    [st EXCEPT !.contacts = s1.contacts, !.raised = TRUE] @@ [email_obj |-> NoPk]

\* batch_callback for the message at position k
Callback ==
    LET f == fetch
        id == f.k
        data == email_data(FetchMessage(id), now, BleachOn(f, id), "a@x")
        exception == f.bad = id /\ f.kind = "http_error"
        unparsed == (f.bad = id /\ f.kind = "malformed") \/ data.raised
        failed(g) == [g EXCEPT !.failed_items = @ \cup {id}] IN
    /\ f.pc = "callback"
    /\ IF exception
         THEN /\ fetch' = AfterCallback(failed(f))
              /\ UNCHANGED store_vars
       ELSE IF unparsed
         THEN /\ fetch' = ExceptClause(failed(f))
              /\ UNCHANGED store_vars
       ELSE \E st \in {IF f.bad = id /\ f.kind = "unstorable"
                          THEN RefusedUpsert(Store @@ [raised |-> FALSE], data)
                        ELSE save_email_to_db(Store @@ [raised |-> FALSE], data, TRUE,
                                              <<"b@x">>, << >>)} :
              /\ contacts' = st.contacts
              /\ emails' = st.emails
              /\ links' = st.links
              /\ attachments' = st.attachments
              /\ downloads' = st.downloads
              /\ fetch' = IF st.raised THEN ExceptClause(failed(f))
                          ELSE AfterCallback([f EXCEPT !.emails_saved = @ + 1])
    /\ UNCHANGED <<now, nops, last, pass, aux_vars>>

NextFetch == FetchList \/ ExecuteChunk \/ Callback

SpecFetch == InitFetch /\ [][NextFetch]_vars

(* ------------------------- credential store --------------------------- *)
\* credentials saved or looked up in one run
MaxCredOps == 3

Users == {"u1", "u2"}
Keys == {"k1", "k2", "invalid"}

\* a NULL payload column, a NULL ciphertext column
NoPayload == [token |-> 0, expiry |-> 0, refresh_token |-> FALSE]
NoCipher == [ct |-> NoPayload, key |-> "none"]

\* the payloads the authorization handshake hands over at time clock:
\* json.loads(creds.to_json()) of a fresh access token; the provider may
\* leave the refresh token out (payload 2)
HandshakePayloads(clock) ==
    { [token |-> 1, expiry |-> clock + 1, refresh_token |-> TRUE],
      [token |-> 2, expiry |-> clock + 1, refresh_token |-> FALSE] }

\* EncryptionUtils.encrypt under the key k: get_cipher raises on a key that
\* is no Fernet key
encrypt(data, k) ==
    IF data = NoPayload THEN [value |-> NoCipher, raised |-> FALSE]
    ELSE IF k = "invalid" THEN [value |-> NoCipher, raised |-> TRUE]
    ELSE [value |-> [ct |-> data, key |-> k], raised |-> FALSE]

\* EncryptionUtils.decrypt under the key k: every exception (invalid key,
\* a token of another key) is swallowed and None is returned
decrypt(encrypted_str, k) ==
    IF encrypted_str = NoCipher THEN NoPayload
    ELSE IF k = "invalid" \/ k # encrypted_str.key THEN NoPayload
    ELSE encrypted_str.ct

\* GmailToken.get_decrypted_token
get_decrypted_token(row, k) ==
    LET decrypted == decrypt(row.encrypted_token_data, k) IN
    IF row.encrypted_token_data # NoCipher /\ decrypted # NoPayload THEN decrypted
    ELSE IF row.token_data # NoPayload THEN row.token_data
    ELSE NoPayload

\* the rows of  filter(user=..., email_account=...)
TokenPks_by_account(ts, user, account) ==
    {i \in 1..Len(ts) : ts[i].email_account = account}
TokenPks(ts, user, account) ==
    {i \in 1..Len(ts) : ts[i].user = user /\ ts[i].email_account = account}

\* filter(email_account=..., is_active=True), filter(user=..., is_active=True)
ActiveByAccount(ts, account) ==
    {i \in 1..Len(ts) : ts[i].email_account = account /\ ts[i].is_active}
ActiveByUser(ts, user) ==
    {i \in 1..Len(ts) : ts[i].user = user /\ ts[i].is_active}

\* .first(): the row of the lowest primary key, NoPk on an empty result
First(pks) == IF pks = {} THEN NoPk ELSE CHOOSE i \in pks : \A j \in pks : i <= j

\* GmailToken.get_token_for_user
get_token_for_user(ts, user, k) ==
    LET pk == First(ActiveByUser(ts, user)) IN
    IF pk = NoPk THEN NoPayload ELSE get_decrypted_token(ts[pk], k)

\* GmailToken.save_token_for_user run to completion: update_or_create commits
\* the row with is_active set, set_encrypted_token fills both copies, save()
\* writes them; an exception of encrypt leaves what update_or_create wrote
save_token_for_user(ts, user, account, token_data, k) ==
    LET pks == TokenPks(ts, user, account)
        pk == IF pks = {} THEN Len(ts) + 1 ELSE First(pks)
        ts1 == IF pks = {}
                 THEN Append(ts, [user |-> user, email_account |-> account,
                                  token_data |-> NoPayload,
                                  encrypted_token_data |-> NoCipher,
                                  is_active |-> TRUE])
               ELSE [ts EXCEPT ![pk].is_active = TRUE]
        enc == encrypt(token_data, k) IN
    IF token_data = NoPayload
      THEN [tokens |-> ts1, token |-> ts1[pk], created |-> pks = {}, raised |-> FALSE]
    ELSE IF enc.raised
      THEN [tokens |-> ts1, token |-> ts1[pk], created |-> pks = {}, raised |-> TRUE]
    ELSE LET row == [ts1[pk] EXCEPT !.encrypted_token_data = enc.value,
                                    !.token_data = token_data] IN
         [tokens |-> [ts1 EXCEPT ![pk] = row], token |-> row, created |-> pks = {},
          raised |-> FALSE]

\* Credentials.from_authorized_user_info(token_data, ...) raises on a payload
\* that is None
Loadable(token_data) == token_data # NoPayload
\* creds.expired
Expired(token_data, clock) == clock >= token_data.expiry

\* creds.refresh(Request()): the exchange with the provider yields a new
\* access token, or raises and leaves nothing to save
RefreshOutcomes == {"ok", "error"}
refresh_swallow(token_data, exchange, clock) ==
    IF exchange = "ok"
      THEN [creds |-> [token |-> token_data.token + 10, expiry |-> clock + 1,
                       refresh_token |-> TRUE], raised |-> FALSE]
    ELSE [creds |-> [token_data EXCEPT !.token = 0], raised |-> FALSE]
refresh(token_data, exchange, clock) ==
    IF exchange = "ok"
      THEN [creds |-> [token |-> token_data.token + 10, expiry |-> clock + 1,
                       refresh_token |-> TRUE], raised |-> FALSE]
    ELSE [creds |-> token_data, raised |-> TRUE]

\* get_gmail_service(account_email=...) run to completion.  service is "ok"
\* for a built service and "None" otherwise; raised tells that an exception
\* left the function (the payload could not be loaded).
get_gmail_service(ts, account, exchange, clock) ==
    LET pk == First(ActiveByAccount(ts, account)) IN
    IF pk = NoPk THEN [tokens |-> ts, service |-> "None", raised |-> FALSE]
    ELSE LET token_data == ts[pk].token_data IN
    IF ~Loadable(token_data) THEN [tokens |-> ts, service |-> "None", raised |-> TRUE]
    ELSE IF Expired(token_data, clock) /\ token_data.refresh_token
      THEN LET r == refresh(token_data, exchange, clock) IN
           IF r.raised THEN [tokens |-> ts, service |-> "None", raised |-> FALSE]
           ELSE [tokens |-> [ts EXCEPT ![pk].token_data = r.creds],
                 service |-> IF Expired(r.creds, clock) THEN "None" ELSE "ok",
                 raised |-> FALSE]
    ELSE IF Expired(token_data, clock)
      THEN [tokens |-> ts, service |-> "None", raised |-> FALSE]
    ELSE [tokens |-> ts, service |-> "ok", raised |-> FALSE]

\* refresh_token_if_needed(account_email=...) run to completion; valid is the
\* boolean it returns
refresh_token_if_needed(ts, account, exchange, clock) ==
    LET pk == First(ActiveByAccount(ts, account)) IN
    IF pk = NoPk THEN [tokens |-> ts, valid |-> FALSE, raised |-> FALSE]
    ELSE LET token_data == ts[pk].token_data IN
    IF ~Loadable(token_data) THEN [tokens |-> ts, valid |-> FALSE, raised |-> TRUE]
    ELSE IF Expired(token_data, clock) /\ token_data.refresh_token
      THEN LET r == refresh(token_data, exchange, clock) IN
           IF r.raised THEN [tokens |-> ts, valid |-> FALSE, raised |-> FALSE]
           ELSE [tokens |-> [ts EXCEPT ![pk].token_data = r.creds],
                 valid |-> TRUE, raised |-> FALSE]
    ELSE [tokens |-> ts, valid |-> ~Expired(token_data, clock), raised |-> FALSE]

(* -------------------- credential calls (SpecCred) --------------------- *)
InitCred ==
    /\ InitStore
    /\ now = 0
    /\ nops = 0
    /\ last = NoCall
    /\ pass = << >>
    /\ fetch = NoFetch
    /\ InitAux

\* what a completed credential call leaves in cred; before is the call
\* completed before it
CredCall(op, user, account, token_data, exchange, ret, raised) ==
    [op |-> op, user |-> user, account |-> account, token_data |-> token_data,
     exchange |-> exchange, ret |-> ret, raised |-> raised, created |-> FALSE,
     before |-> cred.op]

\* the authorization handshake ends: handle_oauth_callback saves the payload
SaveToken ==
    /\ nops < MaxCredOps
    /\ \E user \in Users, account \in Addrs, token_data \in HandshakePayloads(now) :
       \E r \in {save_token_for_user(tokens, user, account, token_data, key)} :
         /\ tokens' = r.tokens
         /\ cred' = [CredCall("save_token_for_user", user, account, token_data, "none",
                              r.token, r.raised) EXCEPT !.created = r.created]
    /\ nops' = nops + 1
    /\ UNCHANGED <<store_vars, now, last, pass, fetch, syncs, key, sync, threads, parse>>

\* an administrator clears the active flag of a credential
Deactivate ==
    /\ nops < MaxCredOps
    /\ \E pk \in 1..Len(tokens) :
         /\ tokens[pk].is_active
         /\ tokens' = [tokens EXCEPT ![pk].is_active = FALSE]
         /\ cred' = CredCall("deactivate", tokens[pk].user, tokens[pk].email_account,
                             NoPayload, "none", NoPayload, FALSE)
    /\ nops' = nops + 1
    /\ UNCHANGED <<store_vars, now, last, pass, fetch, syncs, key, sync, threads, parse>>

\* a reader asks for the payload of a user's credential
GetToken ==
    /\ nops < MaxCredOps
    /\ \E user \in Users :
         cred' = CredCall("get_token_for_user", user, "", NoPayload, "none",
                          get_token_for_user(tokens, user, key), FALSE)
    /\ nops' = nops + 1
    /\ UNCHANGED <<store_vars, now, last, pass, fetch, tokens, syncs, key, sync, threads, parse>>

\* a caller asks for the service of an account
GetService ==
    /\ nops < MaxCredOps
    /\ \E account \in Addrs, exchange \in RefreshOutcomes :
       \E r \in {get_gmail_service(tokens, account, exchange, now)} :
         /\ tokens' = r.tokens
         /\ cred' = CredCall("get_gmail_service", "", account, NoPayload, exchange,
                             r.service, r.raised)
    /\ nops' = nops + 1
    /\ UNCHANGED <<store_vars, now, last, pass, fetch, syncs, key, sync, threads, parse>>

\* a caller asks whether the token of an account is valid
RefreshIfNeeded ==
    /\ nops < MaxCredOps
    /\ \E account \in Addrs, exchange \in RefreshOutcomes :
       \E r \in {refresh_token_if_needed(tokens, account, exchange, now)} :
         /\ tokens' = r.tokens
         /\ cred' = CredCall("refresh_token_if_needed", "", account, NoPayload, exchange,
                             r.valid, r.raised)
    /\ nops' = nops + 1
    /\ UNCHANGED <<store_vars, now, last, pass, fetch, syncs, key, sync, threads, parse>>

\* the process is restarted with another settings.ENCRYPTION_KEY
RotateKey ==
    /\ key = "k1"
    /\ \E k \in Keys \ {key} : key' = k
    /\ UNCHANGED <<store_vars, now, nops, last, pass, fetch, tokens, syncs, cred, sync, threads, parse>>

NextCred == Tick \/ SaveToken \/ Deactivate \/ GetToken \/ GetService \/ RefreshIfNeeded \/ RotateKey

SpecCred == InitCred /\ [][NextCred]_vars

(* ------------------------ sync pass (SpecSync) ------------------------ *)
\* credentials connected before a pass
MaxAccounts == 2

\* the listing the provider returns for a mailbox and a label
Listing(account_email, label) ==
    IF account_email = "a@x"
      THEN (IF label = "INBOX" THEN <<1>> ELSE <<2>>)
    ELSE (IF label = "INBOX" THEN <<3>> ELSE << >>)

\* the provider answers the calls of one fetch_emails, or none of them
RemoteOutcomes == {"ok", "unavailable"}

\* the callbacks of one chunk, run in order over the listed ids; count is
\* emails_saved
RECURSIVE IngestListed(_, _, _, _, _)
IngestListed(st, ids, account_email, clock, count) ==
    IF ids = << >> THEN [store |-> st, count |-> count]
    ELSE LET data == email_data(FetchMessage(Head(ids)), clock, "ok", account_email)
             s == save_email_to_db([st EXCEPT !.raised = FALSE], data, TRUE, <<"b@x">>, << >>)
             next == [contacts |-> s.contacts, emails |-> s.emails, links |-> s.links,
                      attachments |-> s.attachments, downloads |-> s.downloads,
                      raised |-> FALSE] IN
         IngestListed(next, Tail(ids), account_email, clock,
                      IF s.raised THEN count ELSE count + 1)

\* fetch_emails(service, account_email, label, ...) run to completion on a
\* listing of one chunk: 0 when the listing raises, emails_saved otherwise
fetch_emails(st, account_email, label, remote, clock) ==
    IF remote = "unavailable" THEN [store |-> st, count |-> 0]
    ELSE IngestListed(st, Listing(account_email, label), account_email, clock, 0)

\* SyncStatus.create_sync_record
create_sync_record(rows, status, emails_synced, error_message, account_email) ==
    Append(rows, [account_email |-> account_email, status |-> status,
                  emails_synced |-> emails_synced, error_message |-> error_message])

\* what the loop does with an account whose service is None: its entry of
\* sync_results, then the next account
ServiceUnavailable(y, account_email) ==
    [y EXCEPT !.i = @ + 1,
              !.sync_results = (account_email :>
                                   [inbox |-> 0, sent |-> 0, total |-> 0,
                                    error |-> "Service unavailable"]) @@ @,
              !.runs = Append(@, [account_email |-> account_email, service |-> "None",
                                  inbox |-> 0, sent |-> 0])]

InitSync ==
    /\ InitStore
    /\ now = 0
    /\ nops = 0
    /\ last = NoCall
    /\ pass = << >>
    /\ fetch = NoFetch
    /\ InitAux

\* sync_all_emails is called: the active tokens are read; with none of them
\* it returns at once.  The loop visits them in the order the database
\* returns the rows of a query without ORDER BY.
SyncStart ==
    /\ sync.pc = "none"
    /\ LET active == {i \in 1..Len(tokens) : tokens[i].is_active} IN
       \E order \in Perms(active) :
         sync' = [pc |-> IF active = {} THEN "returned" ELSE "loop",
                  active_tokens |-> [k \in 1..Len(order) |-> tokens[order[k]].email_account],
                  i |-> 1, sync_results |-> << >>, total_synced |-> 0, runs |-> << >>]
    /\ UNCHANGED <<store_vars, now, nops, last, pass, fetch, tokens, syncs, key, cred, threads, parse>>

\* one iteration of the loop over active_tokens: get_gmail_service, the two
\* fetch_emails calls, the SyncStatus record and the entry of sync_results.
\* An exception of get_gmail_service leaves sync_all_emails.
SyncAccount ==
    LET y == sync
        account_email == y.active_tokens[y.i] IN
    /\ y.pc = "loop"
    /\ y.i <= Len(y.active_tokens)
    /\ \E exchange \in RefreshOutcomes, inbox_remote, sent_remote \in RemoteOutcomes :
       \E r \in {get_gmail_service(tokens, account_email, exchange, now)} :
         /\ tokens' = r.tokens
         /\ IF r.raised
              THEN /\ sync' = [y EXCEPT !.pc = "raised",
                                        !.runs = Append(@, [account_email |-> account_email,
                                                            service |-> "raised",
                                                            inbox |-> 0, sent |-> 0])]
                   /\ UNCHANGED <<store_vars, syncs>>
            ELSE IF r.service = "None"
              THEN /\ sync' = ServiceUnavailable(y, account_email)
                   /\ UNCHANGED <<store_vars, syncs>>
            ELSE \E f1 \in {fetch_emails(Store @@ [raised |-> FALSE], account_email,
                                         "INBOX", inbox_remote, now)} :
                 \E f2 \in {fetch_emails(f1.store, account_email, "SENT", sent_remote, now)} :
                 LET inbox_count == f1.count
                     sent_count == f2.count
                     account_total == inbox_count + sent_count IN
                   /\ contacts' = f2.store.contacts
                   /\ emails' = f2.store.emails
                   /\ links' = f2.store.links
                   /\ attachments' = f2.store.attachments
                   /\ downloads' = f2.store.downloads
                   /\ syncs' = create_sync_record(syncs, "success", account_total, "",
                                                  account_email)
                   /\ sync' = [y EXCEPT
                        !.i = @ + 1,
                        !.total_synced = @ + account_total,
                        !.sync_results = (account_email :>
                                             [inbox |-> inbox_count, sent |-> sent_count,
                                              total |-> account_total, error |-> ""]) @@ @,
                        !.runs = Append(@, [account_email |-> account_email,
                                            service |-> "ok", inbox |-> inbox_count,
                                            sent |-> sent_count])]
    /\ UNCHANGED <<now, nops, last, pass, fetch, key, cred, threads, parse>>

\* the loop is over: {'total': total_synced, 'accounts': sync_results}
SyncReturn ==
    /\ sync.pc = "loop"
    /\ sync.i > Len(sync.active_tokens)
    /\ sync' = [sync EXCEPT !.pc = "returned"]
    /\ UNCHANGED <<store_vars, now, nops, last, pass, fetch, tokens, syncs, key, cred, threads, parse>>

\* what happens before the pass is triggered: time passes, accounts are
\* connected, the process is restarted with another key
Elapse == sync.pc = "none" /\ Tick
Connect == sync.pc = "none" /\ Len(tokens) < MaxAccounts /\ SaveToken
Reconfigure == sync.pc = "none" /\ RotateKey

NextSync == Elapse \/ Connect \/ Reconfigure \/ SyncStart \/ SyncAccount \/ SyncReturn

SpecSync == InitSync /\ [][NextSync]_vars

(* --------------------- thread query (SpecThreads) --------------------- *)
\* the number of Email rows in the store the query runs against
MaxThreadMsgs == 3

Mailboxes == {"a@x", "b@x"}
ThreadIds == {1, 2, 3}
Dates == {20, 30}
\* the values of the ?page= parameter the view hands over: integers and a
\* string that is no integer
PageNumbers ==
    {[is_int |-> TRUE, n |-> n] : n \in 0..3} \cup {[is_int |-> FALSE, n |-> 0]}
PageSizes == {1, 2}
\* the values of the search box: empty, and a query
SearchQueries == {"", "pat"}
\* the names and addresses of the store that contain the query, whatever
\* the letter case
icontains(value, search_query) ==
    value \in (IF search_query = "pat" THEN {"pat@x", "Pat", "Patricia"} ELSE {})

\* step 1: the mailboxes of every active credential for a holder of
\* view_all_gmail_accounts, of the user's own active credentials otherwise
available_accounts(ts, user, has_perm) ==
    IF has_perm
      THEN {ts[i].email_account : i \in {j \in 1..Len(ts) : ts[j].is_active}}
    ELSE {ts[i].email_account : i \in ActiveByUser(ts, user)}

\* steps 2 and 3: Email.objects.filter(account_email__in=available_accounts),
\* then .filter(account_email=account_filter) unless the filter is 'all'
base_queryset_unrestricted(es, available, account_filter) ==
    {pk \in 1..Len(es) : account_filter # "all" => es[pk].account_email = account_filter}
base_queryset(es, available, account_filter) ==
    {pk \in 1..Len(es) :
        /\ es[pk].account_email \in available
        /\ account_filter # "all" => es[pk].account_email = account_filter}

\* a contact, or the NULL of an outer join, matches the query by name or by
\* address
ContactMatches(cs, c, search_query) ==
    /\ c # NoPk
    /\ icontains(cs[c].name, search_query) \/ icontains(cs[c].email, search_query)

\* step 4: the rows of the query, <<Email pk, recipient pk or NULL>>.  Without
\* a search query there is one row per Email; with one, the Q over
\* recipients__... joins the recipients, an Email without recipients keeps one
\* row with NULL, and the rows whose sender or whose recipient matches stay
search_rows(es, ls, cs, pks, search_query) ==
    IF search_query = "" THEN {<<pk, NoPk>> : pk \in pks}
    ELSE LET joined == {l \in ls : l[1] \in pks}
                           \cup {<<pk, NoPk>> : pk \in {q \in pks : \A l \in ls : l[1] # q}} IN
         {r \in joined :
             \/ ContactMatches(cs, es[r[1]].sender_contact, search_query)
             \/ ContactMatches(cs, r[2], search_query)}
\* the Emails the rows belong to
RowEmails(rows) == {r[1] : r \in rows}

\* step 5: emails.values('thread_id') and its annotations; Count('id') counts
\* the rows of the group
thread_ids(es, pks) == {es[pk].thread_id : pk \in pks}
ThreadEmails(es, pks, thread_id) == {pk \in pks : es[pk].thread_id = thread_id}
message_count(es, rows, thread_id) ==
    Cardinality({r \in rows : es[r[1]].thread_id = thread_id})
latest_date(es, pks, thread_id) ==
    CHOOSE d \in {es[pk].date : pk \in ThreadEmails(es, pks, thread_id)} :
        \A pk \in ThreadEmails(es, pks, thread_id) : es[pk].date <= d
\* the rows latest_email_subquery, ordered by -date alone and cut to one
\* row, may yield for the thread
latest_email_ids(es, pks, thread_id) ==
    {pk \in ThreadEmails(es, pks, thread_id) :
        es[pk].date = latest_date(es, pks, thread_id)}

\* .order_by('-latest_date'): the orders of the groups the database may
\* return, groups of equal latest_date in any order
OrderedByLatest_ascending(es, pks, o) ==
    \A i, j \in 1..Len(o) :
        i < j => latest_date(es, pks, o[i]) <= latest_date(es, pks, o[j])
OrderedByLatest(es, pks, o) ==
    \A i, j \in 1..Len(o) :
        i < j => latest_date(es, pks, o[i]) >= latest_date(es, pks, o[j])
threads_qs(es, pks) ==
    {o \in Perms(thread_ids(es, pks)) : OrderedByLatest(es, pks, o)}

\* Paginator.num_pages with allow_empty_first_page: ceil(count / per_page),
\* and one page for an empty list
num_pages(count, per_page) ==
    IF count = 0 THEN 1 ELSE (count + per_page - 1) \div per_page

\* step 6: paginator.page(page_number); PageNotAnInteger gives page 1,
\* EmptyPage (a number below 1 or above num_pages) gives the last page
page_obj_number(page_number, count, per_page) ==
    IF ~page_number.is_int THEN 1
    ELSE IF page_number.n < 1 \/ page_number.n > num_pages(count, per_page)
      THEN num_pages(count, per_page)
    ELSE page_number.n

\* Paginator.page: object_list[bottom:top]
object_list(o, number, per_page) ==
    LET bottom == (number - 1) * per_page
        top == IF bottom + per_page >= Len(o) THEN Len(o) ELSE bottom + per_page IN
    SubSeq(o, bottom + 1, top)

\* steps 7 and 8: the summaries of the groups on the page, each with the
\* Email that in_bulk fetched for its latest_email_id
thread_list(es, rows, page_threads, latest_email_id) ==
    [i \in 1..Len(page_threads) |->
        [thread_id |-> page_threads[i],
         message_count |-> message_count(es, rows, page_threads[i]),
         latest_email |-> latest_email_id[page_threads[i]],
         latest_date |-> latest_date(es, RowEmails(rows), page_threads[i])]]

\* get_threads_for_user on the store st: every result the call may return
get_threads_for_user(ts, st, user, has_perm, account_filter, search_query, page_number, items_per_page) ==
    LET es == st.emails
        available == available_accounts(ts, user, has_perm)
        rows == search_rows(es, st.links, st.contacts,
                            base_queryset(es, available, account_filter), search_query)
        pks == RowEmails(rows)
        count == Cardinality(thread_ids(es, pks))
        number == page_obj_number(page_number, count, items_per_page) IN
    { [thread_list |-> thread_list(es, rows, object_list(o, number, items_per_page), l),
       number |-> number,
       num_pages |-> num_pages(count, items_per_page),
       count |-> count,
       available_accounts |-> available]
      : o \in threads_qs(es, pks),
        l \in {f \in [thread_ids(es, pks) -> pks] :
                 \A t \in thread_ids(es, pks) : f[t] \in latest_email_ids(es, pks, t)} }

\* the correspondents of the stored messages: message 1 went to Pat and to
\* Patricia, message 2 to Bob, message 3 came from Pat; any other message
\* has no correspondent on record
StoredContacts ==
    << [email |-> "pat@x", name |-> "Pat"], [email |-> "p2@x", name |-> "Patricia"],
       [email |-> "bob@x", name |-> ""] >>
StoredLinks == {l \in {<<1, 1>>, <<1, 2>>, <<2, 3>>} : l[1] <= MaxThreadMsgs}
StoredSender(pk) == IF pk = 3 THEN 1 ELSE NoPk

\* an Email row as save_email_to_db left it
StoredEmail(pk, account_email, thread_id, date) ==
    [gmail_id |-> pk, thread_id |-> thread_id, account_email |-> account_email,
     date |-> date, body_html |-> << >>, sender_contact |-> StoredSender(pk)]

\* u1 connected a@x and u2 connected b@x; the credential of b@x may have
\* been deactivated since
ConnectedTokens(b_active) ==
    LET p == CHOOSE q \in HandshakePayloads(0) : q.refresh_token
        t1 == save_token_for_user(<< >>, "u1", "a@x", p, "k1").tokens
        t2 == save_token_for_user(t1, "u2", "b@x", p, "k1").tokens IN
    [t2 EXCEPT ![2].is_active = b_active]

\* a store of MaxThreadMsgs messages, each of any mailbox, thread and date
InitThreads ==
    /\ contacts = StoredContacts
    /\ links = StoredLinks
    /\ attachments = << >>
    /\ downloads = 0
    /\ now = 0
    /\ nops = 0
    /\ last = NoCall
    /\ pass = << >>
    /\ fetch = NoFetch
    /\ syncs = << >>
    /\ key = "k1"
    /\ cred = NoCred
    /\ sync = NoSync
    /\ threads = NoThreads
    /\ parse = NoParse
    /\ \E b_active \in BOOLEAN : tokens = ConnectedTokens(b_active)
    /\ \E f \in [1..MaxThreadMsgs -> Mailboxes \X ThreadIds \X Dates] :
          emails = [pk \in 1..MaxThreadMsgs |-> StoredEmail(pk, f[pk][1], f[pk][2], f[pk][3])]

\* the calls made: every page of the unsearched list, the first page of a
\* search
ThreadCalls ==
    {c \in [search_query : SearchQueries, page_number : PageNumbers] :
        c.search_query # "" => c.page_number = [is_int |-> TRUE, n |-> 1]}

\* one call of get_threads_for_user; it reads the store and writes nothing
GetThreads ==
    /\ threads.op = "none"
    /\ \E user \in Users, has_perm \in BOOLEAN,
          account_filter \in {"all"} \cup Mailboxes,
          c \in ThreadCalls, items_per_page \in PageSizes :
          \E r \in get_threads_for_user(tokens, Store, user, has_perm, account_filter,
                                        c.search_query, c.page_number, items_per_page) :
             threads' = [op |-> "get_threads", user |-> user, has_perm |-> has_perm,
                         account_filter |-> account_filter,
                         search_query |-> c.search_query,
                         page_number |-> c.page_number,
                         items_per_page |-> items_per_page,
                         thread_list |-> r.thread_list, number |-> r.number,
                         num_pages |-> r.num_pages, count |-> r.count,
                         available_accounts |-> r.available_accounts]
    /\ UNCHANGED <<store_vars, now, nops, last, pass, fetch, tokens, syncs, key, cred, sync, parse>>

\* whether the user may act on the mailbox: the mailbox is one of the user's
\* accessible mailboxes
is_authenticated_for_account(ts, user, has_perm, account_email) ==
    account_email \in available_accounts(ts, user, has_perm)

\* the value get_thread_emails returns for None
NoEmails == [found |-> FALSE, emails |-> << >>]

\* get_thread_emails on the Email rows es: every result the call may return.
\* The queryset is ordered by date alone, so rows of equal date come in any
\* order, in emails.first() and in the queryset returned.
get_thread_emails(ts, es, user, has_perm, thread_id) ==
    LET pks == ThreadEmails(es, 1..Len(es), thread_id)
        ordered == {o \in Perms(pks) :
                      \A i, j \in 1..Len(o) : i < j => es[o[i]].date <= es[o[j]].date} IN
    IF pks = {} THEN {NoEmails}
    ELSE { IF ~is_authenticated_for_account(ts, user, has_perm,
                                            es[first[1]].account_email)
             THEN NoEmails
           ELSE [found |-> TRUE, emails |-> o]
           : first \in ordered, o \in ordered }

\* one call of get_thread_emails; it reads the store and writes nothing
GetThreadEmails ==
    /\ threads.op = "none"
    /\ \E user \in Users, has_perm \in BOOLEAN, thread_id \in ThreadIds :
          \E r \in get_thread_emails(tokens, emails, user, has_perm, thread_id) :
             threads' = [op |-> "get_thread_emails", user |-> user, has_perm |-> has_perm,
                         thread_id |-> thread_id, found |-> r.found, emails |-> r.emails]
    /\ UNCHANGED <<store_vars, now, nops, last, pass, fetch, tokens, syncs, key, cred, sync, parse>>

NextThreads == GetThreads \/ GetThreadEmails

SpecThreads == InitThreads /\ [][NextThreads]_vars

(* --------------------- parsing functions (SpecParse) ------------------- *)
\* parts a multipart carries at most
MaxParts == 2
\* tokens a header value given to extract_email_and_name has at most
MaxHeaderLen == 4

\* decode_base64 on the body.data values of the payloads
decode_base64(data) ==
    CASE data = "cDE" -> "p1"
      [] data = "cDI" -> "p2"
      [] data = "aDE" -> "h1"
      [] data = "aDI" -> "h2"
      [] OTHER -> ""

\* a MIME part of the provider's payload tree; data "" stands for a body
\* without 'data', parts << >> for a part without 'parts'
Part(mimeType, data, filename, attachmentId, parts) ==
    [mimeType |-> mimeType, data |-> data, filename |-> filename,
     attachmentId |-> attachmentId, parts |-> parts]

TextParts == {Part("text/plain", d, "", "", << >>) : d \in {"cDE", "cDI"}}
HtmlParts == {Part("text/html", d, "", "", << >>) : d \in {"aDE", "aDI"}}
\* a file part held by the provider under an attachment id, and an inline
\* part that has a filename and no attachment id
FileParts ==
    { Part("application/pdf", "", "f.pdf", "att1", << >>),
      Part("image/png", "", "i.png", "", << >>) }
LeafParts == TextParts \cup HtmlParts \cup FileParts

SeqsUpTo(S, n) == UNION {[1..k -> S] : k \in 0..n}

NestedParts ==
    {Part("multipart/alternative", "", "", "", s) : s \in SeqsUpTo(LeafParts, MaxParts) \ {<< >>}}

\* the payloads: a single-part message, or a multipart of leaves and nested
\* multiparts
Payloads ==
    TextParts \cup HtmlParts
      \cup {Part("multipart/mixed", "", "", "", s) :
              s \in SeqsUpTo(LeafParts \cup NestedParts, MaxParts)}

\* parse_email_body and the loop over the parts call each other
RECURSIVE parse_email_body(_)
RECURSIVE parse_parts(_, _, _)
\* the loop  `for part in payload['parts']`  from the state (body_text, body_html)
parse_parts(parts, body_text, body_html) ==
    IF parts = << >> THEN [body_text |-> body_text, body_html |-> body_html]
    ELSE LET part == Head(parts) IN
         IF part.mimeType = "text/plain" /\ part.data # ""
           THEN parse_parts(Tail(parts), decode_base64(part.data), body_html)
         ELSE IF part.mimeType = "text/html" /\ part.data # ""
           THEN parse_parts(Tail(parts), body_text, decode_base64(part.data))
         ELSE IF part.parts # << >>
           THEN LET nested == parse_email_body(part) IN
                parse_parts(Tail(parts),
                            IF body_text = "" THEN nested.body_text ELSE body_text,
                            IF body_html = "" THEN nested.body_html ELSE body_html)
         ELSE parse_parts(Tail(parts), body_text, body_html)

parse_email_body(payload) ==
    LET decoded == decode_base64(payload.data)
        simple_text == IF payload.data # "" /\ payload.mimeType # "text/html"
                         THEN decoded ELSE ""
        simple_html == IF payload.data # "" /\ payload.mimeType = "text/html"
                         THEN decoded ELSE "" IN
    parse_parts(payload.parts, simple_text, simple_html)

\* process_parts of extract_attachment_metadata
RECURSIVE process_parts(_)
process_parts(parts) ==
    IF parts = << >> THEN << >>
    ELSE LET part == Head(parts) IN
         (IF part.filename # "" /\ part.attachmentId # ""
            THEN <<[attachment_id |-> part.attachmentId, filename |-> part.filename,
                    mime_type |-> part.mimeType]>>
          ELSE << >>)
           \o process_parts(part.parts) \o process_parts(Tail(parts))

extract_attachment_metadata(payload) == process_parts(payload.parts)

\* the has_attachments expression of parse_email_message
has_attachments(payload) ==
    \E i \in 1..Len(payload.parts) : payload.parts[i].filename # ""

\* A header value is a sequence of tokens: "w" for a run of letters, and the
\* characters that matter to the pattern.
Chars == {"w", "@", " ", "<", ">", "\""}
\* '"Jane Doe" <jane@x.com>'  and  'Jane <jane@x.com>'
QuotedNameAddr == <<"\"", "w", " ", "w", "\"", " ", "<", "w", "@", "w", ">">>
NameAddr == <<"w", " ", "<", "w", "@", "w", ">">>
HeaderStrings == SeqsUpTo(Chars, MaxHeaderLen) \cup {QuotedNameAddr, NameAddr}

\* str.strip(chars)
RECURSIVE lstrip(_, _)
lstrip(s, chars) ==
    IF s # << >> /\ Head(s) \in chars THEN lstrip(Tail(s), chars) ELSE s
RECURSIVE rstrip(_, _)
rstrip(s, chars) ==
    IF s # << >> /\ s[Len(s)] \in chars THEN rstrip(SubSeq(s, 1, Len(s) - 1), chars) ELSE s
strip(s, chars) == rstrip(lstrip(s, chars), chars)

\* re.match(r'(.+?)\s*<(.+?)>', s) with group 1 of length k: after it the
\* white space, then '<', one character or more, and '>'
LessThanAt(s, k) ==
    CHOOSE j \in (k + 1)..(Len(s) + 1) :
        /\ j > Len(s) \/ s[j] # " "
        /\ \A i \in (k + 1)..(j - 1) : s[i] = " "
MatchesWith(s, k) ==
    LET lt == LessThanAt(s, k) IN
    /\ lt <= Len(s)
    /\ s[lt] = "<"
    /\ \E gt \in (lt + 2)..Len(s) : s[gt] = ">"

\* extract_email_and_name
extract_email_and_name(email_str) ==
    LET ks == {k \in 1..Len(email_str) : MatchesWith(email_str, k)} IN
    IF email_str = << >> THEN [email_addr |-> << >>, name |-> << >>]
    ELSE IF ks # {}
      THEN LET k == CHOOSE i \in ks : \A j \in ks : i <= j
               lt == LessThanAt(email_str, k)
               gt == CHOOSE g \in (lt + 2)..Len(email_str) :
                        /\ email_str[g] = ">"
                        /\ \A h \in (lt + 2)..(g - 1) : email_str[h] # ">" IN
           [email_addr |-> strip(SubSeq(email_str, lt + 1, gt - 1), {" "}),
            name |-> strip(strip(SubSeq(email_str, 1, k), {" "}), {"\""})]
    ELSE [email_addr |-> strip(email_str, {" "}), name |-> << >>]

InitParse ==
    /\ InitStore
    /\ now = 0
    /\ nops = 0
    /\ last = NoCall
    /\ pass = << >>
    /\ fetch = NoFetch
    /\ InitAux

\* parse_email_body is called on a payload
ParseBody ==
    /\ parse.op = "none"
    /\ \E payload \in Payloads :
         parse' = [op |-> "parse_email_body", arg |-> payload,
                   body_text |-> parse_email_body(payload).body_text,
                   body_html |-> parse_email_body(payload).body_html]
    /\ UNCHANGED <<store_vars, now, nops, last, pass, fetch, tokens, syncs, key, cred, sync,
                   threads>>

\* parse_email_message computes has_attachments and attachments_metadata
ParseAttachments ==
    /\ parse.op = "none"
    /\ \E payload \in Payloads :
         parse' = [op |-> "parse_email_message", arg |-> payload,
                   has_attachments |-> has_attachments(payload),
                   attachments_metadata |-> extract_attachment_metadata(payload)]
    /\ UNCHANGED <<store_vars, now, nops, last, pass, fetch, tokens, syncs, key, cred, sync,
                   threads>>

\* extract_email_and_name is called on a header value
ExtractEmailAndName ==
    /\ parse.op = "none"
    /\ \E email_str \in HeaderStrings :
         parse' = [op |-> "extract_email_and_name", arg |-> email_str,
                   email_addr |-> extract_email_and_name(email_str).email_addr,
                   name |-> extract_email_and_name(email_str).name]
    /\ UNCHANGED <<store_vars, now, nops, last, pass, fetch, tokens, syncs, key, cred, sync,
                   threads>>

NextParse == ParseBody \/ ParseAttachments \/ ExtractEmailAndName

SpecParse == InitParse /\ [][NextParse]_vars

(* ============================== claims ================================ *)
SeqStep == nops' = nops + 1
Linked(ls, cs, epk) == {cs[l[2]].email : l \in {m \in ls : m[1] = epk}}

\* C1: ingesting the same raw message twice in sequence leaves one Message
\* row for its id with the field values of the first ingestion, the same
\* recipient links, and every Attachment row of the first ingestion, none
\* of them duplicated.
C1_IngestTwiceSame ==
    [][ (SeqStep /\ last'.op = "ingest" /\ CallOf(last) = CallOf(last'))
          => /\ Cardinality(EmailPks(emails', last'.arg.id)) = 1
             /\ emails' = emails
             /\ links' = links
             /\ \A i \in 1..Len(attachments) : attachments'[i] = attachments[i]
             /\ \A i, j \in 1..Len(attachments') :
                   (attachments'[i].email = attachments'[j].email
                    /\ attachments'[i].gmail_attachment_id = attachments'[j].gmail_attachment_id)
                   => i = j ]_vars

\* C2: at most one Email row per gmail_id in every state of two concurrent
\* passes, no pass is thrown out of an ingestion, and every pass that is
\* past its upsert holds the row of its message.
C2_OneRowPerMessage ==
    /\ \A i, j \in 1..Len(emails) : emails[i].gmail_id = emails[j].gmail_id => i = j
    /\ \A p \in Passes :
         /\ ~pass[p].raised
         /\ pass[p].email_obj # NoPk =>
               /\ pass[p].email_obj \in 1..Len(emails)
               /\ emails[pass[p].email_obj].gmail_id = pass[p].data.gmail_id
         /\ (pass[p].pc = "idle" /\ pass[p].n > 0) => pass[p].email_obj # NoPk

\* C2 witness: both passes are past the upsert of the same message and one of
\* them had its INSERT refused
C2_Witness ==
    /\ pass[1].email_obj # NoPk
    /\ pass[1].email_obj = pass[2].email_obj
    /\ pass[1].pc \notin {"idle", "email_update"}
    /\ pass[2].pc \notin {"idle", "email_update"}
    /\ "email" \in pass[2].refetched

\* C3: no two Attachment rows share (email, gmail_attachment_id).
C3_AttachmentPairUnique ==
    \A i, j \in 1..Len(attachments) :
        (attachments[i].email = attachments[j].email
         /\ attachments[i].gmail_attachment_id = attachments[j].gmail_attachment_id)
        => i = j

\* C4: an ingestion of a message whose Email row exists and whose every
\* attachment entry already has a row issues no download call.
C4_NoRedownload ==
    [][ (SeqStep /\ last'.op = "ingest"
         /\ EmailPks(emails, last'.arg.id) # {}
         /\ \A e \in EmailPks(emails, last'.arg.id) :
              \A k \in 1..Len(last'.arg.atts) :
                 AttachmentPks(attachments, e, last'.arg.atts[k]) # {})
          => downloads' = downloads ]_vars

\* C4 witness: a message with attachment parts was ingested again, all its
\* rows are there and the ingestion issued no download
C4_Witness ==
    /\ last.op = "ingest"
    /\ last.before.op = "ingest"
    /\ last.before.arg.id = last.arg.id
    /\ Len(last.arg.atts) = 2
    /\ \A k \in 1..2 : AttachmentPks(attachments, last.ret, last.arg.atts[k]) # {}
    /\ last.calls = 0

\* C5: every Attachment row carries stored content; a download that failed
\* or yielded nothing leaves no row.
C5_RowHasContent ==
    \A i \in 1..Len(attachments) : attachments[i].file = "bytes"

\* C5 witness: a pass finished a message with an attachment part, a download
\* was issued, and no Attachment row exists
C5_Witness ==
    \E p \in Passes :
        /\ pass[p].pc = "idle"
        /\ pass[p].n = 1
        /\ pass[p].data.attachments_metadata # << >>
        /\ downloads > 0
        /\ attachments = << >>

\* C6: a sequential get_or_create_contact(addr, name) returns nothing and
\* writes nothing for an empty address; creates the single contact of an
\* unseen address with the given name; fills in the name of a contact whose
\* name is empty; and leaves a contact whose name is set untouched.
C6_NameMerge ==
    [][ (SeqStep /\ last'.op = "resolve") =>
          LET addr == last'.arg.addr
              name == last'.arg.name
              pks == ContactPks(contacts, addr) IN
          /\ ~last'.raised
          /\ addr = "" => (contacts' = contacts /\ last'.ret = NoPk)
          /\ (addr # "" /\ pks = {}) =>
                /\ contacts' = Append(contacts, [email |-> addr, name |-> name])
                /\ last'.ret = Len(contacts')
          /\ (addr # "" /\ pks # {}) =>
                /\ Len(contacts') = Len(contacts)
                /\ last'.ret \in pks
                /\ \A i \in 1..Len(contacts) :
                      contacts'[i] =
                        IF i \in pks /\ contacts[i].name = "" /\ name # ""
                          THEN [email |-> addr, name |-> name]
                          ELSE contacts[i] ]_vars

\* C6 witness: (addr, "") then (addr, "Jane") were resolved on a fresh store
\* and the one contact of addr is named Jane
C6_Witness ==
    /\ nops = 2
    /\ last.op = "resolve"
    /\ last.arg = [addr |-> "a@x", name |-> "Jane"]
    /\ last.before = [op |-> "resolve", arg |-> [addr |-> "a@x", name |-> ""]]
    /\ contacts = <<[email |-> "a@x", name |-> "Jane"]>>

\* C7: concurrent resolutions of one address leave exactly one Contact row
\* for it, no call raises, and every call that has returned holds that row.
C7_OneContactPerAddress ==
    /\ \A i, j \in 1..Len(contacts) : contacts[i].email = contacts[j].email => i = j
    /\ \A p \in Passes :
         LET s == pass[p]
             inSender == s.ctx = "sender" /\ s.pc \in {"goc_get", "goc_insert", "goc_save"} IN
         /\ ~s.raised
         /\ (s.ctx # "none" /\ ~inSender /\ s.data.sender_email # "") =>
               ContactPks(contacts, s.data.sender_email) = {s.sender_contact}
         /\ \A c \in s.contact_objs :
               /\ c \in 1..Len(contacts)
               /\ contacts[c].email \in SeqToSet(AllRecipients(s.data))

\* C7 witness: both passes resolved the same sender address, unseen before,
\* and the one whose INSERT was refused holds the other's row
C7_Witness ==
    /\ pass[1].sender_contact # NoPk
    /\ pass[1].sender_contact = pass[2].sender_contact
    /\ pass[1].n = 0 /\ pass[2].n = 0
    /\ "contact" \in pass[2].refetched
    /\ Len(contacts) = 1

\* C8: once a Contact's name is non-empty, no step changes it.
C8_NameNeverOverwritten ==
    [][ \A i \in 1..Len(contacts) :
          contacts[i].name # "" => contacts'[i].name = contacts[i].name ]_vars

\* C9: after an upsert the recipient links of the message are exactly the
\* contacts of the to+cc+bcc addresses of that ingestion, the empty list
\* included.
C9_RecipientsReplaced ==
    (last.op = "ingest" /\ ~last.raised) =>
        Linked(links, contacts, last.ret)
          = SeqToSet(NonEmpty(last.arg.to \o last.arg.cc \o last.arg.bcc))

\* C10: when a listing spans three chunks and the second chunk's execute()
\* raises, fetch_emails still returns, every message of the other chunks whose
\* chunk executed and whose own request succeeded has its Email row, and the
\* value returned is their number.
C10_ChunkIsolation ==
    (fetch.pc = "returned" /\ TotalChunks(fetch.n) = 3 /\ 2 \in fetch.failed_chunks) =>
        LET good == {k \in 1..fetch.n :
                        ChunkOf(k) \notin fetch.failed_chunks /\ k \notin fetch.failed_items} IN
        /\ \A k \in good : Cardinality(EmailPks(emails, k)) = 1
        /\ \A k \in (1..fetch.n) \ good : EmailPks(emails, k) = {}
        /\ fetch.result = Cardinality(good)

\* C10 witness: three chunks, only the second failed, and the 21 messages of
\* the first and third chunk are stored and counted
C10_Witness ==
    /\ fetch.pc = "returned"
    /\ fetch.n = 2 * chunk_size + 1
    /\ fetch.failed_chunks = {2}
    /\ fetch.failed_items = {}
    /\ fetch.result = chunk_size + 1
    /\ {emails[i].gmail_id : i \in 1..Len(emails)} = (1..chunk_size) \cup {2 * chunk_size + 1}

\* C18: every HTML body the sync path has stored is the body the provider sent
\* with the tags outside the allow-list removed, or that body with every tag
\* removed; no stored body carries a tag outside the allow-list, so the raw
\* body is never stored, the sanitizer's failure included.
C18_SanitizedHtmlOnly ==
    \A i \in 1..Len(emails) :
        /\ \A j \in 1..Len(emails[i].body_html) :
              emails[i].body_html[j][1] = "tag" => emails[i].body_html[j][2] \in allowed_tags
        /\ emails[i].body_html
              \in { << <<"text", "alert(1)">>, <<"tag", "b">>, <<"text", "hi">>, <<"tag", "b">> >>,
                    << <<"text", "alert(1)">>, <<"text", "hi">> >> }

\* C18 witness: the fetch returned, the allow-list sanitizer raised on one
\* message, and that message is stored with every tag stripped beside one
\* stored with the allow-list applied
C18_Witness ==
    /\ fetch.pc = "returned"
    /\ fetch.kind = "unclean"
    /\ \E i, j \in 1..Len(emails) :
          /\ emails[i].gmail_id = fetch.bad
          /\ emails[i].body_html = << <<"text", "alert(1)">>, <<"text", "hi">> >>
          /\ emails[j].body_html
                = << <<"text", "alert(1)">>, <<"tag", "b">>, <<"text", "hi">>, <<"tag", "b">> >>

CredStep == nops' = nops + 1

\* C13: a get_gmail_service or refresh_token_if_needed call that attempts the
\* refresh exchange for an expired credential and sees it fail writes nothing:
\* every GmailToken row, its payload and its active flag included, is what
\* it was, no row is removed, and the caller gets no service (None, False)
\* and no exception.
C13_RefreshFailureLeavesToken ==
    [][ LET pk == First(ActiveByAccount(tokens, cred'.account)) IN
        (/\ CredStep
         /\ cred'.op \in {"get_gmail_service", "refresh_token_if_needed"}
         /\ cred'.exchange = "error"
         /\ pk # NoPk
         /\ tokens[pk].token_data # NoPayload
         /\ tokens[pk].token_data.refresh_token
         /\ now >= tokens[pk].token_data.expiry)
        => /\ tokens' = tokens
           /\ ~cred'.raised
           /\ cred'.op = "get_gmail_service" => cred'.ret = "None"
           /\ cred'.op = "refresh_token_if_needed" => cred'.ret = FALSE ]_vars

\* C13 witness: get_gmail_service met a failing exchange on the expired
\* credential of a@x, returned None, and the row still holds the payload of
\* the handshake, active
C13_Witness ==
    /\ cred.op = "get_gmail_service"
    /\ cred.account = "a@x"
    /\ cred.exchange = "error"
    /\ cred.ret = "None"
    /\ Len(tokens) = 1
    /\ tokens[1] = [user |-> "u1", email_account |-> "a@x",
                    token_data |-> [token |-> 1, expiry |-> 1, refresh_token |-> TRUE],
                    encrypted_token_data |->
                        [ct |-> [token |-> 1, expiry |-> 1, refresh_token |-> TRUE],
                         key |-> "k1"],
                    is_active |-> TRUE]
    /\ now = 1

\* C14: the encrypted copy and the plaintext copy of every credential hold the
\* same payload, and get_token_for_user returns the payload stored for the
\* user's active credential.
C14_ReaderGetsStoredPayload ==
    /\ \A i \in 1..Len(tokens) :
          tokens[i].encrypted_token_data # NoCipher
            => tokens[i].encrypted_token_data.ct = tokens[i].token_data
    /\ (cred.op = "get_token_for_user" /\ ActiveByUser(tokens, cred.user) # {})
          => cred.ret = tokens[First(ActiveByUser(tokens, cred.user))].token_data

\* C15: no two GmailToken rows share (user, email_account); a completed
\* save_token_for_user for a pair that has a row changes that row alone, to
\* active with both copies holding the payload passed in, adds a row for a
\* pair that has none, and returns the row of the pair with that payload.
C15_OneCredentialPerPair ==
    [][ /\ \A i, j \in 1..Len(tokens') :
              (tokens'[i].user = tokens'[j].user
               /\ tokens'[i].email_account = tokens'[j].email_account) => i = j
        /\ (CredStep /\ cred'.op = "save_token_for_user" /\ ~cred'.raised) =>
              LET old == {i \in 1..Len(tokens) :
                            /\ tokens[i].user = cred'.user
                            /\ tokens[i].email_account = cred'.account}
                  row == [user |-> cred'.user, email_account |-> cred'.account,
                          token_data |-> cred'.token_data,
                          encrypted_token_data |-> [ct |-> cred'.token_data, key |-> key],
                          is_active |-> TRUE] IN
              /\ cred'.ret = row
              /\ old = {} => tokens' = Append(tokens, row)
              /\ old # {} =>
                    /\ Len(tokens') = Len(tokens)
                    /\ \A i \in 1..Len(tokens) :
                          tokens'[i] = IF i \in old THEN row ELSE tokens[i] ]_vars

\* C15 witness: a second handshake for (u1, a@x) completed right after its
\* credential had been deactivated: still one row, active again, holding the
\* payload of the second handshake
C15_Witness ==
    /\ cred.op = "save_token_for_user"
    /\ cred.before = "deactivate"
    /\ ~cred.raised
    /\ ~cred.created
    /\ Len(tokens) = 1
    /\ tokens[1] = cred.ret
    /\ tokens[1].user = "u1" /\ tokens[1].email_account = "a@x"
    /\ tokens[1].token_data = [token |-> 2, expiry |-> 2, refresh_token |-> FALSE]
    /\ tokens[1].is_active

\* C19: a get_token_for_user call on a credential whose encrypted payload
\* cannot be decrypted under the current key (another key, an invalid key)
\* ends in an error; it does not return a value.
C19_DecryptFailureIsFatal ==
    [][ LET pk == First(ActiveByUser(tokens, cred'.user)) IN
        (/\ CredStep
         /\ cred'.op = "get_token_for_user"
         /\ pk # NoPk
         /\ tokens[pk].encrypted_token_data # NoCipher
         /\ (key = "invalid" \/ key # tokens[pk].encrypted_token_data.key))
        => cred'.raised ]_vars

\* the sum of f[a].total over the accounts a of S
RECURSIVE SumTotals(_, _)
SumTotals(f, S) ==
    IF S = {} THEN 0
    ELSE LET a == CHOOSE x \in S : TRUE IN f[a].total + SumTotals(f, S \ {a})

\* C11: when a sync pass has ended, every active account it set out over was
\* reached: each was synced or is itself one whose service could not be
\* obtained; no account is left out because another one failed.
C11_OtherAccountsStillSynced ==
    sync.pc \in {"returned", "raised"} =>
        \A k \in 1..Len(sync.active_tokens) :
            /\ k <= Len(sync.runs)
            /\ sync.runs[k].account_email = sync.active_tokens[k]

\* C12: when a sync pass has returned, the SyncStatus table holds exactly one
\* row per account the pass processed, in the order processed: status error
\* with a cause for an account whose service could not be obtained, status
\* success with the sum of the inbox and sent counts otherwise.
C12_OneSyncRunPerAccount ==
    sync.pc = "returned" =>
        /\ Len(syncs) = Len(sync.runs)
        /\ \A k \in 1..Len(sync.runs) :
              /\ k <= Len(syncs)
              /\ syncs[k].account_email = sync.runs[k].account_email
              /\ sync.runs[k].service = "None" =>
                    (syncs[k].status = "error" /\ syncs[k].error_message # "")
              /\ sync.runs[k].service = "ok" =>
                    /\ syncs[k].status = "success"
                    /\ syncs[k].emails_synced = sync.runs[k].inbox + sync.runs[k].sent

\* C20: in the result of a sync pass, total is the sum of the totals of the
\* accounts map, and the total of every account is its inbox count plus its
\* sent count.
C20_TotalsAddUp ==
    sync.pc = "returned" =>
        /\ sync.total_synced = SumTotals(sync.sync_results, DOMAIN sync.sync_results)
        /\ \A a \in DOMAIN sync.sync_results :
              sync.sync_results[a].total
                = sync.sync_results[a].inbox + sync.sync_results[a].sent

\* the groups the call aggregates, and where a group may stand in a
\* descending order of the groups' latest timestamps
QueriedEmails ==
    RowEmails(search_rows(emails, links, contacts,
                          base_queryset(emails, threads.available_accounts,
                                        threads.account_filter),
                          threads.search_query))
QueriedThreads == {emails[pk].thread_id : pk \in QueriedEmails}
LatestOf(t) ==
    CHOOSE d \in {emails[pk].date : pk \in {q \in QueriedEmails : emails[q].thread_id = t}} :
        \A pk \in QueriedEmails : emails[pk].thread_id = t => emails[pk].date <= d
OnPage == {threads.thread_list[i].thread_id : i \in 1..Len(threads.thread_list)}
\* the groups of the messages qe, each with its latest timestamp
GroupsOf(qe) ==
    {<<t, CHOOSE d \in {emails[pk].date : pk \in {q \in qe : emails[q].thread_id = t}} :
              \A pk \in qe : emails[pk].thread_id = t => emails[pk].date <= d>>
        : t \in {emails[pk].thread_id : pk \in qe}}

\* C16: get_threads_for_user returns the thread groups sorted by each
\* group's most recent message timestamp, descending, and paginates the list
\* of groups: the page it returns, page p of the page info, holds exactly the
\* groups at positions (p-1)*size+1 .. p*size of that order, p is the page
\* asked for whenever that page exists, and a group whose place in the order
\* falls on page p is on it and on no other page.
C16_PagesOfGroupsByLatest ==
    threads.op = "get_threads" =>
      LET tl == threads.thread_list
          size == threads.items_per_page
          p == threads.number
          groups == GroupsOf(QueriedEmails)
          n == Cardinality(groups)
          pages == IF n = 0 THEN 1 ELSE (n + size - 1) \div size
          first == (p - 1) * size + 1
          last_pos == IF p * size < n THEN p * size ELSE n
          on_page == OnPage
          Newer(g) == Cardinality({h \in groups : h[2] > g[2]})
          NotOlder(g) == Cardinality({h \in groups : h[2] >= g[2]}) IN
      /\ threads.count = n
      /\ threads.num_pages = pages
      /\ p \in 1..pages
      /\ (threads.page_number.is_int /\ threads.page_number.n \in 1..pages)
            => p = threads.page_number.n
      /\ Len(tl) = IF last_pos >= first THEN last_pos - first + 1 ELSE 0
      /\ \A i \in 1..Len(tl) :
            /\ <<tl[i].thread_id, tl[i].latest_date>> \in groups
            /\ Newer(<<tl[i].thread_id, tl[i].latest_date>>) < first + i
            /\ first + i - 1 <= NotOlder(<<tl[i].thread_id, tl[i].latest_date>>)
      /\ \A i, j \in 1..Len(tl) :
            i < j => /\ tl[i].latest_date >= tl[j].latest_date
                     /\ tl[i].thread_id # tl[j].thread_id
      /\ \A g \in groups :
            /\ (Newer(g) + 1 >= first /\ NotOlder(g) <= last_pos) => g[1] \in on_page
            /\ (NotOlder(g) < first \/ Newer(g) + 1 > last_pos) => g[1] \notin on_page

\* two groups, the newer of two messages (latest 30) and the older of one
\* message (latest 20), page size 1: page 2 is asked for and holds the older
C16_Witness ==
    /\ threads.op = "get_threads"
    /\ threads.items_per_page = 1
    /\ threads.page_number = [is_int |-> TRUE, n |-> 2]
    /\ threads.count = 2
    /\ threads.number = 2
    /\ Len(threads.thread_list) = 1
    /\ threads.thread_list[1].latest_date = 20
    /\ threads.thread_list[1].message_count = 1
    /\ \E t \in QueriedThreads :
          /\ LatestOf(t) = 30
          /\ Cardinality({pk \in QueriedEmails : emails[pk].thread_id = t}) = 2

\* the mailboxes the user may see: those of every active credential for a
\* user allowed to view all accounts, those of the user's own active
\* credentials otherwise
AccessibleMailboxes ==
    {tokens[i].email_account :
        i \in {j \in 1..Len(tokens) :
                 /\ tokens[j].is_active
                 /\ threads.has_perm \/ tokens[j].user = threads.user}}
AccessibleInThread(t) ==
    {pk \in 1..Len(emails) :
        /\ emails[pk].thread_id = t
        /\ emails[pk].account_email \in AccessibleMailboxes
        /\ threads.account_filter # "all" => emails[pk].account_email = threads.account_filter}

\* C17: every thread summary get_threads_for_user returns is computed only
\* from messages whose mailbox is in the user's accessible set, whatever the
\* account filter: its representative message is one of them, its message
\* count counts them alone, and a filter naming a mailbox outside the set
\* returns no summary.
C17_OnlyAccessibleMailboxes ==
    threads.op = "get_threads" =>
      /\ \A i \in 1..Len(threads.thread_list) :
            LET s == threads.thread_list[i] IN
            /\ s.latest_email \in AccessibleInThread(s.thread_id)
            /\ threads.search_query = ""
                  => s.message_count = Cardinality(AccessibleInThread(s.thread_id))
      /\ (threads.account_filter # "all" /\ threads.account_filter \notin AccessibleMailboxes)
            => threads.thread_list = << >>

\* u1, who may not view all accounts, lists all threads: a thread holding a
\* message of a@x and a message of b@x is summarised with a count of 1
C17_Witness ==
    /\ threads.op = "get_threads"
    /\ threads.search_query = ""
    /\ threads.user = "u1"
    /\ ~threads.has_perm
    /\ threads.account_filter = "all"
    /\ \E i \in 1..Len(threads.thread_list) :
          LET s == threads.thread_list[i] IN
          /\ s.message_count = 1
          /\ emails[s.latest_email].account_email = "a@x"
          /\ \E pk \in 1..Len(emails) :
                /\ emails[pk].thread_id = s.thread_id
                /\ emails[pk].account_email = "b@x"

\* C21: when fetch_emails has returned and one item failed (its request, its
\* normalization or its persistence raised), every other item whose chunk
\* executed has its Email row, the failed item has none, and the value
\* returned is the number of items persisted, which is the number of Email
\* rows the call wrote.
C21_ItemIsolation ==
    (fetch.pc = "returned" /\ fetch.failed_items # {}) =>
        LET others == {k \in 1..fetch.n :
                          ChunkOf(k) \notin fetch.failed_chunks /\ k # fetch.bad} IN
        /\ fetch.failed_items = {fetch.bad}
        /\ \A k \in others : Cardinality(EmailPks(emails, k)) = 1
        /\ EmailPks(emails, fetch.bad) = {}
        /\ fetch.result = Cardinality(others)
        /\ fetch.result = Len(emails)

\* C21 witness: two chunks, both executed; the database refused the row of
\* the second message of the first chunk, and the other messages of that
\* chunk and the message of the second chunk are stored and counted
C21_Witness ==
    /\ fetch.pc = "returned"
    /\ fetch.n = chunk_size + 1
    /\ fetch.kind = "unstorable"
    /\ fetch.bad = 2
    /\ fetch.failed_items = {2}
    /\ fetch.failed_chunks = {}
    /\ fetch.result = chunk_size
    /\ {emails[i].gmail_id : i \in 1..Len(emails)} = (1..(chunk_size + 1)) \ {2}

\* C22: a pass that has reached the replacement of the recipient set or the
\* attachment loop of a message has that message's Email row in the store,
\* and in every state each recipient link and each Attachment row refers to an
\* existing Email row.
C22_MessageRowFirst ==
    /\ \A l \in links : l[1] \in 1..Len(emails)
    /\ \A i \in 1..Len(attachments) : attachments[i].email \in 1..Len(emails)
    /\ \A p \in Passes :
          (\/ pass[p].pc \in {"rcpt_read", "rcpt_write", "att_check", "att_download",
                              "att_create"}
           \/ pass[p].pc \in {"goc_get", "goc_insert", "goc_save"} /\ pass[p].ctx = "rcpt")
          => /\ pass[p].email_obj \in 1..Len(emails)
             /\ emails[pass[p].email_obj].gmail_id = pass[p].data.gmail_id

\* C22 witness: a message is stored with a recipient link and an Attachment
\* row while the other pass is still resolving recipients of its message
C22_Witness ==
    /\ Len(attachments) >= 1
    /\ \E l \in links : l[1] = attachments[1].email
    /\ \E p \in Passes : pass[p].pc = "goc_insert" /\ pass[p].ctx = "rcpt"

\* the store without its primary keys: rows refer to each other by address
\* and provider id; names tells whether display names are compared
StoreContent(st, names) ==
    [contacts |-> {[email |-> st.contacts[i].email,
                    name |-> IF names THEN st.contacts[i].name ELSE ""] :
                      i \in 1..Len(st.contacts)},
     emails |-> {[gmail_id |-> st.emails[i].gmail_id,
                  thread_id |-> st.emails[i].thread_id,
                  account_email |-> st.emails[i].account_email,
                  date |-> st.emails[i].date,
                  body_html |-> st.emails[i].body_html,
                  sender |-> IF st.emails[i].sender_contact = NoPk THEN ""
                             ELSE st.contacts[st.emails[i].sender_contact].email] :
                    i \in 1..Len(st.emails)},
     links |-> {<<st.emails[l[1]].gmail_id, st.contacts[l[2]].email>> : l \in st.links},
     attachments |-> {[gmail_id |-> st.emails[st.attachments[i].email].gmail_id,
                       gmail_attachment_id |-> st.attachments[i].gmail_attachment_id,
                       file |-> st.attachments[i].file] : i \in 1..Len(st.attachments)},
     rows |-> <<Len(st.contacts), Len(st.emails), Len(st.attachments)>>]

EmptyStore ==
    [contacts |-> << >>, emails |-> << >>, links |-> {}, attachments |-> << >>,
     downloads |-> 0, raised |-> FALSE]

\* the stores that ingesting first, then second, into an empty store can
\* leave, over the clock readings, the iteration orders of the recipient sets
\* and the provider's answers to the downloads
IngestedInOrder(first, second) ==
    { save_email_to_db(
          save_email_to_db(EmptyStore, email_data(first, c1, "ok", "a@x"), TRUE, o1, d1)
              @@ [raised |-> FALSE],
          email_data(second, c2, "ok", "a@x"), TRUE, o2, d2)
      : c1 \in 0..MaxClock, c2 \in 0..MaxClock,
        o1 \in Perms(SeqToSet(NonEmpty(first.to \o first.cc \o first.bcc))),
        o2 \in Perms(SeqToSet(NonEmpty(second.to \o second.cc \o second.bcc))),
        d1 \in [1..Len(first.atts) -> ProviderResponses],
        d2 \in [1..Len(second.atts) -> ProviderResponses] }

\* two messages with different provider ids were ingested into the empty store
TwoIngested ==
    /\ nops = 2
    /\ last.op = "ingest"
    /\ last.before.op = "ingest"
    /\ last.arg.id # last.before.arg.id

CaseFold(addr) == IF addr = "A@x" THEN "a@x" ELSE addr

\* C24: the store never holds two contacts whose addresses are equal after
\* case normalization: resolving two addresses that differ only in letter
\* case returns the same Contact.
C24_ContactIdentityIgnoresCase ==
    \A i, j \in 1..Len(contacts) :
        CaseFold(contacts[i].email) = CaseFold(contacts[j].email) => i = j

\* the distinct messages of conversation t in the filtered set of the call
FilteredInThread(t) == {pk \in QueriedEmails : emails[pk].thread_id = t}

\* C25: for every thread summary get_threads_for_user returns, message_count
\* is the number of distinct messages of that conversation in the filtered
\* set, also under a search query that a message matches through several of
\* its recipients.
C25_CountsDistinctMessages ==
    threads.op = "get_threads" =>
        \A i \in 1..Len(threads.thread_list) :
            threads.thread_list[i].message_count
                = Cardinality(FilteredInThread(threads.thread_list[i].thread_id))

\* C26: the representative message of every thread summary is the most
\* recent message of its group in the filtered set, and among several
\* messages with the latest timestamp the one with the highest internal id.
C26_RepresentativeHighestId ==
    threads.op = "get_threads" =>
        \A i \in 1..Len(threads.thread_list) :
            LET s == threads.thread_list[i]
                group == FilteredInThread(s.thread_id) IN
            /\ s.latest_email \in group
            /\ \A pk \in group :
                  \/ emails[pk].date < emails[s.latest_email].date
                  \/ emails[pk].date = emails[s.latest_email].date /\ pk <= s.latest_email

\* the bodies of the parts of one MIME type that carry data, in the order a
\* depth-first walk of the part tree meets them
RECURSIVE BodiesDepthFirst(_, _)
BodiesDepthFirst(parts, mimeType) ==
    IF parts = << >> THEN << >>
    ELSE (IF Head(parts).mimeType = mimeType /\ Head(parts).data # ""
            THEN <<decode_base64(Head(parts).data)>> ELSE << >>)
           \o BodiesDepthFirst(Head(parts).parts, mimeType)
           \o BodiesDepthFirst(Tail(parts), mimeType)
FirstFound(payload, mimeType) ==
    LET found == BodiesDepthFirst(<<payload>>, mimeType) IN
    IF found = << >> THEN "" ELSE Head(found)

\* C27: parse_email_body returns as text body the first text/plain part a
\* depth-first walk of the part tree finds and as html body the first
\* text/html part; no later sibling and no nested multipart overwrites a body
\* already found.
C27_FirstBodyFound ==
    parse.op = "parse_email_body" =>
        /\ parse.body_text = FirstFound(parse.arg, "text/plain")
        /\ parse.body_html = FirstFound(parse.arg, "text/html")

\* C28: extract_email_and_name returns (addr, name) for 'name <addr>', the
\* name without its quotes; (addr, "") for a bare address; an empty address
\* for empty input and for input that holds no address.
C28_AddressOrEmpty ==
    parse.op = "extract_email_and_name" =>
        /\ parse.arg = QuotedNameAddr
              => /\ parse.email_addr = <<"w", "@", "w">>
                 /\ parse.name = <<"w", " ", "w">>
        /\ parse.arg = NameAddr
              => parse.email_addr = <<"w", "@", "w">> /\ parse.name = <<"w">>
        /\ parse.arg = <<"w", "@", "w">>
              => parse.email_addr = <<"w", "@", "w">> /\ parse.name = << >>
        /\ (\A i \in 1..Len(parse.arg) : parse.arg[i] # "@") => parse.email_addr = << >>

\* C30: whenever the normalizer extracted an attachment metadata entry for a
\* message, nested parts included, the has_attachments it computed, which
\* save_email_to_db stores unchanged, is true.
C30_HasAttachmentsCoversMetadata ==
    parse.op = "parse_email_message" =>
        (parse.attachments_metadata # << >> => parse.has_attachments)

\* C29: get_thread_emails returns a message only if the user may access the
\* mailbox the message belongs to, also when the messages of the
\* conversation belong to several mailboxes.
C29_OnlyAuthorizedMessages ==
    threads.op = "get_thread_emails" =>
        \A i \in 1..Len(threads.emails) :
            emails[threads.emails[i]].account_email \in AccessibleMailboxes

====
